---- MODULE Spec2Model ----
(***************************************************************************)
(* A model of async_combinator.AsyncCombinator: a wrapper around one       *)
(* awaitable, with the operators map, then, or_else, map_err,              *)
(* map_ok_or_else and unwrap_or_else.  Every operator creates a coroutine  *)
(* object (map_coro, then_coro, ...) that closes over the receiver and the *)
(* caller's functions, and wraps it in a new AsyncCombinator.  Driving is  *)
(* modelled step by step: a task holds the chain of coroutines that await  *)
(* each other, the coroutine on top runs, and control goes back to the     *)
(* event loop only where a caller-supplied coroutine suspends.             *)
(***************************************************************************)
EXTENDS Integers, Sequences, FiniteSets, TLC

\* ---------------------------------------------------------------- bounds
MaxVal == 1        \* success values are 0..MaxVal
MaxCombs == 2      \* AsyncCombinator objects: constructions and operator calls
MaxTasks == 1      \* callers that drive a combinator

Val == 0..MaxVal
NV == MaxVal + 1

VARIABLES heap, errs, tasks, running, log

vars == <<heap, errs, tasks, running, log>>

\* ------------------------------------------------- exceptions and guards
\* The part of Python's exception hierarchy the callers' code raises.
Parent(c) ==
    CASE c = "ValueError" -> "Exception"
      [] c = "KeyError" -> "LookupError"
      [] c = "LookupError" -> "Exception"
      [] c = "RuntimeError" -> "Exception"
      [] c = "TypeError" -> "Exception"
      [] c = "AttributeError" -> "Exception"
      [] c = "Exception" -> "BaseException"
      [] c = "CancelledError" -> "BaseException"
      [] OTHER -> ""

RECURSIVE Ancestors(_)
Ancestors(c) == IF c = "" THEN {} ELSE {c} \cup Ancestors(Parent(c))

\* a guard that compares the class itself: type(e) in classes
isinstance_exact(cls, classes) == cls \in classes

\* isinstance(e, classes) of _error_guard.guard
isinstance(cls, classes) == \E k \in classes : k \in Ancestors(cls)

\* error_guard(*classes): the guards the callers pass, by name
error_guard(g) ==
    CASE g = "is_value_error" -> {"ValueError"}
      [] g = "is_key_error" -> {"KeyError"}
      [] g = "is_lookup_error" -> {"LookupError"}
      [] g = "is_exception" -> {"Exception"}
      [] g = "is_base_exception" -> {"BaseException"}
      [] g = "is_value_or_lookup" -> {"ValueError", "LookupError"}
      [] g = "is_nothing" -> {}
      [] OTHER -> {}

guard(g, cls) == isinstance(cls, error_guard(g))

Guards == {"is_value_error"}

\* ------------------------------------------------------- outcomes, heap
None == [k |-> "none", v |-> 0]
Ok(v) == [k |-> "val", v |-> v]
Err(e) == [k |-> "err", v |-> e]

NoObj == [kind |-> "", aw |-> 0, op |-> "", self |-> 0, f |-> "", e |-> "",
          guard |-> "", okv |-> 0, cls |-> "", from |-> "", pc |-> "",
          handling |-> 0]

\* AsyncCombinator.__init__: the object holds _awaitable and nothing else
Combinator(a) == [NoObj EXCEPT !.kind = "comb", !.aw = a]

\* a caller-supplied coroutine object: it returns okv, or raises cls(...)
\* if cls # "", "from" an exception of class from that it caught if
\* from # ""; before that it may suspend any number of times
Coro(v, cls, from) ==
    [NoObj EXCEPT !.kind = "coro", !.okv = v, !.cls = cls, !.from = from,
                  !.pc = "new"]

\* a value that is not awaitable, as in AsyncCombinator("not an awaitable")
Value(v) == [NoObj EXCEPT !.kind = "value", !.okv = v]

\* the coroutine object an operator creates (map_coro(), then_coro(), ...)
StageCoro(op, c, f, e, g) ==
    [NoObj EXCEPT !.kind = "stage", !.op = op, !.self = c, !.f = f, !.e = e,
                  !.guard = g, !.pc = "new"]

NewErr(cls, cause, context, suppress) ==
    [cls |-> cls, cause |-> cause, context |-> context, suppress |-> suppress]

Ids == 1..Len(heap)
Combs == {i \in Ids : heap[i].kind = "comb"}
Stages == {i \in Ids : heap[i].kind = "stage"}
Coros == {i \in Ids : heap[i].kind = "coro"}
NumCombs == Cardinality(Combs)

\* the coroutines that calls of combinators returned
Calls == {i \in Ids : heap[i].kind = "stage" /\ heap[i].op = "_coro"}

\* an __await__ that returns the wrapped object as it is
__await___direct(H, c) == IF H[c].kind = "comb" THEN H[c].aw ELSE c

\* AsyncCombinator.__await__: return self._awaitable.__await__(); a
\* combinator that wraps a combinator delegates again
RECURSIVE __await__(_, _)
__await__(H, c) ==
    IF H[c].kind = "comb" THEN __await__(H, H[c].aw) ELSE c

\* ------------------------------------------------ the callers' functions
Ret(v) == [k |-> "val", v |-> v, cls |-> "", how |-> ""]
Raise(cls, how) == [k |-> "raise", v |-> 0, cls |-> cls, how |-> how]

\* synchronous functions of a success value (map's f, map_ok_or_else's f)
ValFns == {"inc", "boom"}

\* the functions a caller defines with def: add one, double, raise
Def(f, v) ==
    CASE f = "inc" -> Ret((v + 1) % NV)
      [] f = "dbl" -> Ret((2 * v) % NV)
      [] OTHER -> Raise("RuntimeError", "new")

\* lambda x: g(f(x)), by name
Lambdas ==
    {[name |-> "inc>inc", f |-> "inc", g |-> "inc"],
     [name |-> "inc>dbl", f |-> "inc", g |-> "dbl"],
     [name |-> "inc>boom", f |-> "inc", g |-> "boom"],
     [name |-> "dbl>inc", f |-> "dbl", g |-> "inc"],
     [name |-> "dbl>dbl", f |-> "dbl", g |-> "dbl"],
     [name |-> "dbl>boom", f |-> "dbl", g |-> "boom"],
     [name |-> "boom>inc", f |-> "boom", g |-> "inc"],
     [name |-> "boom>dbl", f |-> "boom", g |-> "dbl"],
     [name |-> "boom>boom", f |-> "boom", g |-> "boom"]}

Compose(f, g) == (CHOOSE l \in Lambdas : l.f = f /\ l.g = g).name

\* the call f(v): what it returns or raises
ValFn(f, v) ==
    IF \E l \in Lambdas : l.name = f
    THEN LET l == CHOOSE k \in Lambdas : k.name = f
             r == Def(l.f, v)
         IN IF r.k = "val" THEN Def(l.g, r.v) ELSE r
    ELSE Def(f, v)

\* a value computed from an error, as len(str(error)) in the tests
ErrVal(cls) ==
    CASE cls = "ValueError" -> 1 % NV
      [] cls = "KeyError" -> 2 % NV
      [] OTHER -> 0

\* synchronous functions of an error (unwrap_or_else's f, map_err's f,
\* map_ok_or_else's e): return a value, raise a new error, raise a new
\* error "from" the argument, or raise the argument itself
ErrFns == {"dflt", "to_key", "to_key_from", "same"}
ErrFn(f, cls) ==
    CASE f = "dflt" -> Ret(ErrVal(cls))
      [] f = "to_key" -> Raise("KeyError", "new")
      [] f = "to_key_from" -> Raise("KeyError", "from")
      [] OTHER -> Raise(cls, "same")

\* the call error_guard(e) in a stage: what the guard returns or raises.
\* A guard is any callable of the caller; "has_code" is one written by
\* hand, lambda e: e.code == 404, which raises AttributeError on the
\* exceptions of this hierarchy (none of them has that attribute); of a
\* guard made by error_guard the call returns, and guard(g, cls) is what
\* it returns
GuardFn(g, cls) ==
    IF g = "has_code" THEN Raise("AttributeError", "new") ELSE Ret(0)

\* AsyncCombinator(c) as the value a caller's function returns: the body
\* of the wrapped coroutine, marked as wrapped
InComb(c) == [c EXCEPT !.kind = "comb"]

\* functions that return a coroutine: then's f, or_else's f.  The record
\* is the body of the coroutine returned.  The functions named "..._c"
\* return the same coroutine wrapped in an AsyncCombinator.
AsyncValFns == {"ainc", "afail"}
AsyncValFn(f, v) ==
    CASE f = "ainc" -> Coro((v + 1) % NV, "", "")
      [] f = "ainc_c" -> InComb(Coro((v + 1) % NV, "", ""))
      [] f = "afail_c" -> InComb(Coro(0, "ValueError", ""))
      [] OTHER -> Coro(0, "ValueError", "")

AsyncErrFns == {"arec", "afail"}
AsyncErrFn(f, cls) ==
    CASE f = "arec" -> Coro(ErrVal(cls), "", "")
      [] f = "arec_c" -> InComb(Coro(ErrVal(cls), "", ""))
      [] f = "afail_c" -> InComb(Coro(0, "KeyError", ""))
      [] f = "afail_from" -> Coro(0, "KeyError", "ValueError")
      [] OTHER -> Coro(0, "KeyError", "")

\* the function that returns AsyncCombinator(f(...))
InCombFn(f) == CASE f = "ainc" -> "ainc_c"
                 [] f = "arec" -> "arec_c"
                 [] OTHER -> "afail_c"

\* ------------------------------------------------------------ the tasks
NoTask == [st |-> "idle", stack |-> <<>>, ret |-> None, result |-> None]
Tasks == 1..MaxTasks

Init ==
    /\ heap = <<>>
    /\ errs = <<>>
    /\ tasks = [t \in Tasks |-> NoTask]
    /\ running = 0
    /\ log = <<>>

Ev(ev, co, role, out) == [ev |-> ev, co |-> co, role |-> role, out |-> out]

\* ------------------------------------------------------ machine helpers
\* The part of the state one step of task t works on.
M(t) == [heap |-> heap, errs |-> errs, stack |-> tasks[t].stack,
         ret |-> tasks[t].ret, log |-> log]

Top(m) == m.stack[Len(m.stack)]

Logged(m, ev) == [m EXCEPT !.log = Append(@, ev)]

\* The exception being handled where the top frame runs: the innermost
\* "except" block of the coroutines that await each other (Python looks
\* through the frames of the awaiting coroutines).
RECURSIVE Handled(_, _)
Handled(m, d) ==
    IF d = 0 THEN 0
    ELSE IF m.heap[m.stack[d]].handling # 0 THEN m.heap[m.stack[d]].handling
    ELSE Handled(m, d - 1)

\* "raise cls(...)" [from cause]: a new exception object; __context__ is
\* the exception being handled, __cause__ the one named by "from"
RaiseNew(m, cls, cause) ==
    LET id == Len(m.errs) + 1
        ne == NewErr(cls, cause, Handled(m, Len(m.stack)), cause # 0)
    IN [m EXCEPT !.errs = Append(@, ne), !.ret = Err(id)]

\* "except ... as e:" the coroutine on top is handling e from here on
Except(m, e) == [m EXCEPT !.heap[Top(m)].handling = e]

\* a Finish after which the coroutine can be started again
Finish_restart(m, out) ==
    LET co == Top(m)
    IN [m EXCEPT !.heap[co].pc = "new", !.heap[co].handling = 0,
                 !.stack = SubSeq(@, 1, Len(@) - 1), !.ret = out,
                 !.log = Append(@, Ev("resolved", co, "", out))]

\* the coroutine on top returns or raises: it is finished, and its outcome
\* reaches the frame that awaits it
Finish(m, out) ==
    LET co == Top(m)
    IN [m EXCEPT !.heap[co].pc = "done", !.heap[co].handling = 0,
                 !.stack = SubSeq(@, 1, Len(@) - 1), !.ret = out,
                 !.log = Append(@, Ev("resolved", co, "", out))]

\* The coroutines that await each other from coroutine a down to the one
\* that is suspended: a stage coroutine is suspended in "await self" or in
\* the await of what its function returned.  dead says that the chain ends
\* at a coroutine that has finished (another caller drove it to its end).
RECURSIVE Awaiting(_, _)
Awaiting(H, a) ==
    IF H[a].pc = "done" THEN [stack |-> <<>>, dead |-> TRUE]
    ELSE IF H[a].kind # "stage" THEN [stack |-> <<a>>, dead |-> FALSE]
    ELSE LET d == Awaiting(H, __await__(H, IF H[a].pc = "await_self"
                                           THEN H[a].self ELSE H[a].aw))
         IN [stack |-> <<a>> \o d.stack, dead |-> d.dead]

\* an Await that hands the outcome of a finished coroutine to every later
\* await of it
RECURSIVE Await_cached(_, _)
Await_cached(m, x) ==
    LET H == m.heap
        a == __await__(H, x)
        m1 == [m EXCEPT !.stack = Append(@, a), !.ret = None,
                        !.log = Append(@, Ev("begin", a, "", None))]
        d == Awaiting(H, a)
        mj == [m EXCEPT !.stack = @ \o d.stack, !.ret = None,
                        !.log = Append(@, Ev("join", a, "", None))]
        was == CHOOSE i \in 1..Len(m.log) :
                   m.log[i].ev = "resolved" /\ m.log[i].co = a
    IN IF H[a].kind = "value"
       THEN RaiseNew([m EXCEPT !.ret = None], "AttributeError", 0)
       ELSE IF H[a].pc = "done"
       THEN [m EXCEPT !.ret = m.log[was].out]
       ELSE IF H[a].pc # "new"
       THEN (IF d.dead THEN RaiseNew(mj, "RuntimeError", 0) ELSE mj)
       ELSE IF H[a].kind = "stage"
       THEN Await_cached([m1 EXCEPT !.heap[a].pc = "await_self"], H[a].self)
       ELSE [m1 EXCEPT !.heap[a].pc = "run"]

\* an Await in which a stage coroutine goes on without awaiting its receiver
Await_noself(m, x) ==
    LET H == m.heap
        a == __await__(H, x)
        m1 == [m EXCEPT !.stack = Append(@, a), !.ret = None,
                        !.log = Append(@, Ev("begin", a, "", None))]
        d == Awaiting(H, a)
        mj == [m EXCEPT !.stack = @ \o d.stack, !.ret = None,
                        !.log = Append(@, Ev("join", a, "", None))]
    IN IF H[a].kind = "value"
       THEN RaiseNew([m EXCEPT !.ret = None], "AttributeError", 0)
       ELSE IF H[a].pc = "done"
       THEN RaiseNew([m EXCEPT !.ret = None], "RuntimeError", 0)
       ELSE IF H[a].pc # "new"
       THEN (IF d.dead THEN RaiseNew(mj, "RuntimeError", 0) ELSE mj)
       ELSE IF H[a].kind = "stage"
       THEN [m1 EXCEPT !.heap[a].pc = "await_self", !.ret = Ok(0)]
       ELSE [m1 EXCEPT !.heap[a].pc = "run"]

\* "await x" in the frame on top (or in the caller when the stack is
\* empty).  x.__await__() delegates to the wrapped awaitable; a wrapped
\* value without __await__ raises AttributeError there, and an __await__
\* that returns no iterator raises TypeError.  A fresh coroutine
\* starts under the awaiting frame at once; a stage coroutine runs straight
\* into its own "await self", so the chain is entered down to the first
\* caller-supplied coroutine.  A coroutine that has finished raises
\* RuntimeError (cannot reuse already awaited coroutine) in the awaiting
\* frame.  A coroutine that another caller started and that is suspended is
\* resumed where it stands (__await__ of a coroutine object returns an
\* iterator that sends into the coroutine): the awaiting frame drives it on.
RECURSIVE Await(_, _)
Await(m, x) ==
    LET H == m.heap
        a == __await__(H, x)
        m1 == [m EXCEPT !.stack = Append(@, a), !.ret = None,
                        !.log = Append(@, Ev("begin", a, "", None))]
        d == Awaiting(H, a)
        mj == [m EXCEPT !.stack = @ \o d.stack, !.ret = None,
                        !.log = Append(@, Ev("join", a, "", None))]
    IN IF H[a].kind = "value"
       THEN RaiseNew([m EXCEPT !.ret = None], "AttributeError", 0)
       ELSE IF H[a].kind = "comb"
       THEN RaiseNew([m EXCEPT !.ret = None], "TypeError", 0)
       ELSE IF H[a].pc = "done"
       THEN RaiseNew([m EXCEPT !.ret = None], "RuntimeError", 0)
       ELSE IF H[a].pc # "new"
       THEN (IF d.dead THEN RaiseNew(mj, "RuntimeError", 0) ELSE mj)
       ELSE IF H[a].kind = "stage"
       THEN Await([m1 EXCEPT !.heap[a].pc = "await_self"], H[a].self)
       ELSE [m1 EXCEPT !.heap[a].pc = "run"]

\* a Commit that hands an outcome to the awaiting stage through the event
\* loop: the task leaves the CPU before the stage goes on
Commit_yield(t, m) ==
    LET over == m.stack = <<>> /\ m.ret # None
        wait == m.stack # <<>> /\ m.ret # None
    IN /\ heap' = m.heap
       /\ errs' = m.errs
       /\ log' = m.log
       /\ tasks' = [tasks EXCEPT ![t] =
                      IF over
                      THEN [st |-> "done", stack |-> <<>>, ret |-> None,
                            result |-> m.ret]
                      ELSE [@ EXCEPT !.stack = m.stack, !.ret = m.ret,
                                     !.st = IF wait THEN "ready" ELSE @]]
       /\ running' = IF over \/ wait THEN 0 ELSE running

\* an __await__ that catches what the awaitable raises and returns a value
Commit_swallow(t, m) ==
    LET over == m.stack = <<>> /\ m.ret # None
    IN /\ heap' = m.heap
       /\ errs' = m.errs
       /\ log' = m.log
       /\ tasks' = [tasks EXCEPT ![t] =
                      IF over
                      THEN [st |-> "done", stack |-> <<>>, ret |-> None,
                            result |-> IF m.ret.k = "err" THEN Ok(0)
                                       ELSE m.ret]
                      ELSE [@ EXCEPT !.stack = m.stack, !.ret = m.ret]]
       /\ running' = IF over THEN 0 ELSE running

\* writes the step's result back; the task is over when the outermost
\* await has its outcome
Commit(t, m) ==
    LET over == m.stack = <<>> /\ m.ret # None
    IN /\ heap' = m.heap
       /\ errs' = m.errs
       /\ log' = m.log
       /\ tasks' = [tasks EXCEPT ![t] =
                      IF over
                      THEN [st |-> "done", stack |-> <<>>, ret |-> None,
                            result |-> m.ret]
                      ELSE [@ EXCEPT !.stack = m.stack, !.ret = m.ret]]
       /\ running' = IF over THEN 0 ELSE running

\* task t is on the CPU and the coroutine on top of its stack is co
Runs(t) == running = t /\ tasks[t].st = "run" /\ tasks[t].stack # <<>>
OnTop(t) == tasks[t].stack[Len(tasks[t].stack)]

\* ---------------------------------------------------------- construction
\* AsyncCombinator(coro()): the caller creates a coroutine object and
\* wraps it; nothing runs
init(v, cls, from) ==
    /\ running = 0
    /\ NumCombs < MaxCombs
    /\ heap' = heap \o <<Coro(v, cls, from), Combinator(Len(heap) + 1)>>
    /\ UNCHANGED <<errs, tasks, running, log>>

\* an operator that starts the receiver's computation when it is called
Wrapped_eager(sc) ==
    /\ running = 0
    /\ NumCombs < MaxCombs
    /\ heap' = [heap EXCEPT ![__await__(heap, sc.self)].pc = "run"]
                  \o <<sc, Combinator(Len(heap) + 1)>>
    /\ UNCHANGED <<errs, tasks, running, log>>

\* the common end of every operator: return AsyncCombinator(x_coro())
Wrapped(sc) ==
    /\ running = 0
    /\ NumCombs < MaxCombs
    /\ heap' = heap \o <<sc, Combinator(Len(heap) + 1)>>
    /\ UNCHANGED <<errs, tasks, running, log>>

\* def map(self, f): return AsyncCombinator(map_coro())
map(c, f) == c \in Combs /\ Wrapped(StageCoro("map", c, f, "", ""))

\* def then(self, f): return AsyncCombinator(then_coro())
then(c, f) == c \in Combs /\ Wrapped(StageCoro("then", c, f, "", ""))

\* def or_else(self, f, error_guard): return AsyncCombinator(or_else_coro())
or_else(c, f, g) == c \in Combs /\ Wrapped(StageCoro("or_else", c, f, "", g))

\* def map_err(self, f, error_guard)
map_err(c, f, g) == c \in Combs /\ Wrapped(StageCoro("map_err", c, f, "", g))

\* def map_ok_or_else(self, f, e, error_guard)
map_ok_or_else(c, f, e, g) ==
    c \in Combs /\ Wrapped(StageCoro("map_ok_or_else", c, f, e, g))

\* def unwrap_or_else(self, f, error_guard)
unwrap_or_else(c, f, g) ==
    c \in Combs /\ Wrapped(StageCoro("unwrap_or_else", c, f, "", g))

\* ---------------------------------------------------------------- driving
\* a Drive of a combinator that remembers that it was driven and raises
\* RuntimeError itself when it is driven again
Drive_once(t, c) ==
    /\ running = 0
    /\ tasks[t].st = "idle"
    /\ \A u \in 1..(t - 1) : tasks[u].st # "idle"
    /\ c \in Combs
    /\ LET m0 == Logged(M(t), Ev("drive", c, "", None))
           again == \E i \in 1..Len(log) : log[i] = Ev("drive", c, "", None)
           m == IF again THEN RaiseNew(m0, "RuntimeError", 0) ELSE Await(m0, c)
           over == m.stack = <<>>
       IN /\ heap' = m.heap
          /\ errs' = m.errs
          /\ log' = m.log
          /\ tasks' = [tasks EXCEPT ![t] =
                         IF over
                         THEN [st |-> "done", stack |-> <<>>, ret |-> None,
                               result |-> m.ret]
                         ELSE [st |-> "run", stack |-> m.stack,
                               ret |-> m.ret, result |-> None]]
          /\ running' = IF over THEN 0 ELSE t

\* a caller awaits combinator c (callers are numbered in the order in
\* which they start)
Drive(t, c) ==
    /\ running = 0
    /\ tasks[t].st = "idle"
    /\ \A u \in 1..(t - 1) : tasks[u].st # "idle"
    /\ c \in Combs \cup Calls
    /\ LET m == Await(Logged(M(t), Ev("drive", c, "", None)), c)
           over == m.stack = <<>>
       IN /\ heap' = m.heap
          /\ errs' = m.errs
          /\ log' = m.log
          /\ tasks' = [tasks EXCEPT ![t] =
                         IF over
                         THEN [st |-> "done", stack |-> <<>>, ret |-> None,
                               result |-> m.ret]
                         ELSE [st |-> "run", stack |-> m.stack,
                               ret |-> m.ret, result |-> None]]
          /\ running' = IF over THEN 0 ELSE t

\* a caller-supplied coroutine suspends (await asyncio.sleep(...)): the
\* task leaves the CPU
Suspend(t) ==
    /\ Runs(t)
    /\ heap[OnTop(t)].kind = "coro"
    /\ tasks' = [tasks EXCEPT ![t].st = "ready"]
    /\ running' = 0
    /\ UNCHANGED <<heap, errs, log>>

\* the event loop resumes a suspended task: the send goes down the
\* coroutines that await each other to the one that is suspended.  Where
\* another caller has driven a coroutine of that chain on, the send reaches
\* the coroutines as they are now; a coroutine that has finished meanwhile
\* raises RuntimeError in the frame that awaits it, or in the caller.
\* an event loop that wakes a caller up in the place of another suspended
\* caller: the caller goes on in the chain the other one is waiting in
Resume_crossed(t) ==
    /\ running = 0
    /\ tasks[t].st = "ready"
    /\ LET from == IF \E u \in DOMAIN tasks : u # t /\ tasks[u].st = "ready"
                   THEN CHOOSE u \in DOMAIN tasks :
                            u # t /\ tasks[u].st = "ready"
                   ELSE t
           d == Awaiting(heap, tasks[from].stack[1])
       IN /\ ~d.dead
          /\ tasks' = [tasks EXCEPT ![t].st = "run", ![t].stack = d.stack]
          /\ running' = t
          /\ UNCHANGED <<heap, errs, log>>

Resume(t) ==
    /\ running = 0
    /\ tasks[t].st = "ready"
    /\ LET d == Awaiting(heap, tasks[t].stack[1])
           m == [M(t) EXCEPT !.stack = d.stack]
           x == RaiseNew(m, "RuntimeError", 0)
       IN IF ~d.dead
          THEN /\ tasks' = [tasks EXCEPT ![t].st = "run", ![t].stack = d.stack]
               /\ running' = t
               /\ UNCHANGED <<heap, errs, log>>
          ELSE /\ errs' = x.errs
               /\ tasks' = [tasks EXCEPT ![t] =
                              IF d.stack = <<>>
                              THEN [st |-> "done", stack |-> <<>>,
                                    ret |-> None, result |-> x.ret]
                              ELSE [st |-> "run", stack |-> d.stack,
                                    ret |-> x.ret, result |-> None]]
               /\ running' = IF d.stack = <<>> THEN 0 ELSE t
               /\ UNCHANGED <<heap, log>>

\* the end of a caller-supplied coroutine: "return okv", "raise cls(...)",
\* or "except from as x: raise cls(...) from x"
CoroEnd(m) ==
    LET o == m.heap[Top(m)]
        x == RaiseNew(m, o.from, 0)
        y == RaiseNew(Except(x, x.ret.v), o.cls, x.ret.v)
    IN IF o.cls = "" THEN Finish(m, Ok(o.okv))
       ELSE IF o.from = "" THEN Finish(RaiseNew(m, o.cls, 0),
                                       Err(Len(m.errs) + 1))
       ELSE Finish(y, y.ret)

Return(t) ==
    /\ Runs(t)
    /\ heap[OnTop(t)].kind = "coro"
    /\ Commit(t, CoroEnd(M(t)))

\* ------------------------------------------------- the stage coroutines
\* Each operator below is one resumption of the coroutine on top of the
\* stack: from the outcome of an await to the next await or to its end.

\* the outcome of "await self" reaches the stage
Recv(m, role) == Logged(m, Ev("recv", Top(m), role, m.ret))

\* a caller's function is invoked with the value or the error in arg
Call(m, role, arg) == Logged(m, Ev("call", Top(m), role, arg))

\* a caller's synchronous function raises, as r says: a new exception,
\* a new exception "from" its argument e, or e itself
FnRaise(m, r, e) ==
    IF r.how = "same" THEN [m EXCEPT !.ret = Err(e)]
    ELSE RaiseNew(m, r.cls, IF r.how = "from" THEN e ELSE 0)

\* a plain "raise x", which leaves __cause__ as it is
RaiseFromNone_keep(m, x) == [m EXCEPT !.ret = Err(x)]

\* "raise x from None"
RaiseFromNone(m, x) ==
    [m EXCEPT !.errs[x].cause = 0, !.errs[x].suppress = TRUE, !.ret = Err(x)]

\* an AwaitNew that waits for the coroutine without starting it
AwaitNew_lost(m, c) ==
    LET co == Top(m)
        id == Len(m.heap) + 1
    IN Logged([m EXCEPT !.heap = Append(@, c), !.heap[co].pc = "await_f",
                        !.heap[co].aw = id, !.ret = None],
              Ev("made", co, "f", Ok(id)))

\* a caller's function returned coroutine object c, or a combinator that
\* wraps it; the stage awaits what the function returned
AwaitNew(m, c) ==
    LET co == Top(m)
        id == Len(m.heap) + 1
        m1 == [m EXCEPT !.heap = Append(@, c), !.heap[co].pc = "await_f",
                        !.heap[co].aw = id]
        m2 == [m EXCEPT !.heap = @ \o <<[c EXCEPT !.kind = "coro"],
                                        Combinator(id)>>,
                        !.heap[co].pc = "await_f", !.heap[co].aw = id]
    IN IF c.kind = "comb"
       THEN Await(Logged(m2, Ev("made", co, "f", Ok(id))), id + 1)
       ELSE Await(Logged(m1, Ev("made", co, "f", Ok(id))), id)

\* map_coro that applies f twice: "return f(f(await self))"
map_coro_twice(m) ==
    LET o == m.heap[Top(m)]
        m1 == Recv(m, "self")
        r1 == ValFn(o.f, m.ret.v)
        r == IF r1.k = "val" THEN ValFn(o.f, r1.v) ELSE r1
        m2 == Call(m1, "f", m.ret)
    IN IF m.ret.k = "err" THEN Finish(m1, m.ret)
       ELSE IF r.k = "val" THEN Finish(m2, Ok(r.v))
       ELSE Finish(RaiseNew(m2, r.cls, 0), Err(Len(m.errs) + 1))

\* map_coro that returns the awaited value without applying f
map_coro_skip(m) == Finish(Recv(m, "self"), m.ret)

\* map_coro that wraps a failure of the receiver in a new exception
map_coro_wrap(m) ==
    LET o == m.heap[Top(m)]
        m1 == Recv(m, "self")
        r == ValFn(o.f, m.ret.v)
        m2 == Call(m1, "f", m.ret)
        w == RaiseNew(m1, "RuntimeError", m.ret.v)
    IN IF m.ret.k = "err" THEN Finish(w, w.ret)
       ELSE IF r.k = "val" THEN Finish(m2, Ok(r.v))
       ELSE Finish(RaiseNew(m2, r.cls, 0), Err(Len(m.errs) + 1))

\* async def map_coro(): return f(await self)
map_coro(m) ==
    LET o == m.heap[Top(m)]
        m1 == Recv(m, "self")
        r == ValFn(o.f, m.ret.v)
        m2 == Call(m1, "f", m.ret)
    IN IF m.ret.k = "err" THEN Finish(m1, m.ret)
       ELSE IF r.k = "val" THEN Finish(m2, Ok(r.v))
       ELSE Finish(RaiseNew(m2, r.cls, 0), Err(Len(m.errs) + 1))

\* then_coro without the second await: "return f(await self)"
then_coro_noawait(m) ==
    LET o == m.heap[Top(m)]
        m1 == Recv(m, "self")
        c == AsyncValFn(o.f, m.ret.v)
        id == Len(m.heap) + 1
        m2 == Call(m1, "f", m.ret)
        m3 == Logged([m2 EXCEPT !.heap = Append(@, c)],
                     Ev("made", Top(m), "f", Ok(id)))
    IN IF m.ret.k = "err" THEN Finish(m1, m.ret)
       ELSE Finish(m3, Ok(id))

\* then_coro that reports a failure of the second computation as a new
\* RuntimeError
then_coro_mask(m) ==
    LET o == m.heap[Top(m)]
        m1 == Recv(m, "self")
        w == RaiseNew(Recv(m, "f"), "RuntimeError", 0)
    IN IF o.pc = "await_f"
       THEN (IF m.ret.k = "err" THEN Finish(w, w.ret)
             ELSE Finish(Recv(m, "f"), m.ret))
       ELSE IF m.ret.k = "err" THEN Finish(m1, m.ret)
       ELSE AwaitNew(Call(m1, "f", m.ret), AsyncValFn(o.f, m.ret.v))

\* async def then_coro(): return await f(await self)
then_coro(m) ==
    LET o == m.heap[Top(m)]
        m1 == Recv(m, "self")
    IN IF o.pc = "await_f" THEN Finish(Recv(m, "f"), m.ret)
       ELSE IF m.ret.k = "err" THEN Finish(m1, m.ret)
       ELSE AwaitNew(Call(m1, "f", m.ret), AsyncValFn(o.f, m.ret.v))

\* or_else_coro that tries f once more when the recovery fails with an
\* error the guard accepts
or_else_coro_retry(m) ==
    LET o == m.heap[Top(m)]
        m1 == Recv(m, "self")
        e == m.ret.v
        m2 == Call(Except(m1, e), "guard", m.ret)
        first == \A i \in 1..Len(m.log) :
                     ~(m.log[i].ev = "made" /\ m.log[i].co = Top(m)
                       /\ m.log[i].out.v # o.aw)
    IN IF o.pc = "await_f" /\ m.ret.k = "err" /\ first
          /\ guard(o.guard, m.errs[e].cls)
       THEN AwaitNew(Call(Call(Recv(m, "f"), "guard", m.ret), "f", m.ret),
                     AsyncErrFn(o.f, m.errs[e].cls))
       ELSE IF o.pc = "await_f" THEN Finish(Recv(m, "f"), m.ret)
       ELSE IF m.ret.k = "val" THEN Finish(m1, m.ret)
       ELSE IF guard(o.guard, m.errs[e].cls)
       THEN AwaitNew(Call(m2, "f", m.ret), AsyncErrFn(o.f, m.errs[e].cls))
       ELSE Finish(m2, Err(e))

\* or_else_coro without the second await: "return f(e)"
or_else_coro_detach(m) ==
    LET o == m.heap[Top(m)]
        m1 == Recv(m, "self")
        e == m.ret.v
        m2 == Call(Except(m1, e), "guard", m.ret)
        id == Len(m.heap) + 1
        m3 == Logged([Call(m2, "f", m.ret) EXCEPT
                          !.heap = Append(@, AsyncErrFn(o.f, m.errs[e].cls))],
                     Ev("made", Top(m), "f", Ok(id)))
    IN IF m.ret.k = "val" THEN Finish(m1, m.ret)
       ELSE IF guard(o.guard, m.errs[e].cls) THEN Finish(m3, Ok(id))
       ELSE Finish(m2, Err(e))

\* or_else_coro that falls back to the original error when the recovery
\* computation fails
or_else_coro_fallback(m) ==
    LET o == m.heap[Top(m)]
        m1 == Recv(m, "self")
        e == m.ret.v
        m2 == Call(Except(m1, e), "guard", m.ret)
    IN IF o.pc = "await_f"
       THEN Finish(Recv(m, "f"),
                   IF m.ret.k = "err" THEN Err(o.handling) ELSE m.ret)
       ELSE IF m.ret.k = "val" THEN Finish(m1, m.ret)
       ELSE IF guard(o.guard, m.errs[e].cls)
       THEN AwaitNew(Call(m2, "f", m.ret), AsyncErrFn(o.f, m.errs[e].cls))
       ELSE Finish(m2, Err(e))

\* a guard that raises is taken as a guard that says no: the bare raise
GuardRaised_original(m2, r) == Finish(m2, Err(m2.heap[Top(m2)].handling))

\* "if error_guard(e):" where the call raises: the exception leaves the
\* except block, and the coroutine, with the error caught as its context
GuardRaised(m2, r) ==
    LET x == RaiseNew(m2, r.cls, 0)
    IN Finish(x, x.ret)

\* async def or_else_coro():
\*     try: return await self
\*     except BaseException as e:
\*         if error_guard(e): return await f(e)
\*         raise
or_else_coro(m) ==
    LET o == m.heap[Top(m)]
        m1 == Recv(m, "self")
        e == m.ret.v
        m2 == Call(Except(m1, e), "guard", m.ret)
    IN IF o.pc = "await_f" THEN Finish(Recv(m, "f"), m.ret)
       ELSE IF m.ret.k = "val" THEN Finish(m1, m.ret)
       ELSE IF GuardFn(o.guard, m.errs[e].cls).k = "raise"
       THEN GuardRaised(m2, GuardFn(o.guard, m.errs[e].cls))
       ELSE IF guard(o.guard, m.errs[e].cls)
       THEN AwaitNew(Call(m2, "f", m.ret), AsyncErrFn(o.f, m.errs[e].cls))
       ELSE Finish(m2, Err(e))

\* ExceptRaise that raises what the handler returns ("raise f(e) from
\* None"): a value that is no exception cannot be raised
ExceptRaise_result(m1, role, g, f) ==
    LET e == m1.ret.v
        m2 == Call(Except(m1, e), "guard", m1.ret)
        r == ErrFn(f, m1.errs[e].cls)
        m3 == Call(m2, role, m1.ret)
        m4 == FnRaise(m3, r, e)
        m5 == RaiseNew(m3, "TypeError", 0)
    IN IF ~guard(g, m1.errs[e].cls) THEN Finish(m2, Err(e))
       ELSE IF r.k = "val" THEN Finish(m5, m5.ret)
       ELSE Finish(RaiseFromNone(m4, m4.ret.v), m4.ret)

\* ExceptRaise that raises the original error when the handler raises
ExceptRaise_original(m1, role, g, f) ==
    LET e == m1.ret.v
        m2 == Call(Except(m1, e), "guard", m1.ret)
        m3 == Call(m2, role, m1.ret)
    IN IF ~guard(g, m1.errs[e].cls) THEN Finish(m2, Err(e))
       ELSE Finish(m3, Err(e))

\* ExceptRaise that returns what the handler returns
ExceptRaise_swallow(m1, role, g, f) ==
    LET e == m1.ret.v
        m2 == Call(Except(m1, e), "guard", m1.ret)
        r == ErrFn(f, m1.errs[e].cls)
        m3 == Call(m2, role, m1.ret)
        m4 == FnRaise(m3, r, e)
    IN IF ~guard(g, m1.errs[e].cls) THEN Finish(m2, Err(e))
       ELSE IF r.k = "val" THEN Finish(m3, Ok(r.v))
       ELSE Finish(RaiseFromNone(m4, m4.ret.v), m4.ret)

\* ExceptRaise with "from None" on the bare raise as well
ExceptRaise_clear(m1, role, g, f) ==
    LET e == m1.ret.v
        m2 == Call(Except(m1, e), "guard", m1.ret)
        r == ErrFn(f, m1.errs[e].cls)
        m3 == Call(m2, role, m1.ret)
        m4 == FnRaise(m3, r, e)
    IN IF ~guard(g, m1.errs[e].cls) THEN Finish(RaiseFromNone(m2, e), Err(e))
       ELSE IF r.k = "val" THEN Finish(m3, Err(e))
       ELSE Finish(RaiseFromNone(m4, m4.ret.v), m4.ret)

\* the except block of map_err_coro and of map_ok_or_else_coro:
\*     if error_guard(e):
\*         try: f(e)
\*         except BaseException as f_e: raise f_e from None
\*     raise
ExceptRaise(m1, role, g, f) ==
    LET e == m1.ret.v
        m2 == Call(Except(m1, e), "guard", m1.ret)
        r == ErrFn(f, m1.errs[e].cls)
        m3 == Call(m2, role, m1.ret)
        m4 == FnRaise(m3, r, e)
    IN IF GuardFn(g, m1.errs[e].cls).k = "raise"
       THEN GuardRaised(m2, GuardFn(g, m1.errs[e].cls))
       ELSE IF ~guard(g, m1.errs[e].cls) THEN Finish(m2, Err(e))
       ELSE IF r.k = "val" THEN Finish(m3, Err(e))
       ELSE Finish(RaiseFromNone(m4, m4.ret.v), m4.ret)

\* map_err_coro whose try block lacks the "return"
map_err_coro_noreturn(m) ==
    LET o == m.heap[Top(m)]
        m1 == Recv(m, "self")
    IN IF m.ret.k = "val" THEN Finish(m1, Ok(0))
       ELSE ExceptRaise(m1, "f", o.guard, o.f)

\* async def map_err_coro(): try: return await self / except ...
map_err_coro(m) ==
    LET o == m.heap[Top(m)]
        m1 == Recv(m, "self")
    IN IF m.ret.k = "val" THEN Finish(m1, m.ret)
       ELSE ExceptRaise(m1, "f", o.guard, o.f)

\* map_ok_or_else_coro that does not test the guard before it calls e
map_ok_or_else_coro_noguard(m) ==
    LET o == m.heap[Top(m)]
        m1 == Recv(m, "self")
        r == ValFn(o.f, m.ret.v)
        m2 == Call(m1, "f", m.ret)
    IN IF m.ret.k = "err" THEN ExceptRaise(m1, "e", "is_exception", o.e)
       ELSE IF r.k = "val" THEN Finish(m2, Ok(r.v))
       ELSE Finish(RaiseNew(m2, r.cls, 0), Err(Len(m.errs) + 1))

\* map_ok_or_else_coro with "return f(result)" inside the try block
map_ok_or_else_coro_intry(m) ==
    LET o == m.heap[Top(m)]
        m1 == Recv(m, "self")
        r == ValFn(o.f, m.ret.v)
        m2 == Call(m1, "f", m.ret)
        m3 == RaiseNew(m2, r.cls, 0)
    IN IF m.ret.k = "err" THEN ExceptRaise(m1, "e", o.guard, o.e)
       ELSE IF r.k = "val" THEN Finish(m2, Ok(r.v))
       ELSE ExceptRaise(m3, "e", o.guard, o.e)

\* async def map_ok_or_else_coro():
\*     try: result = await self
\*     except ...
\*     return f(result)
map_ok_or_else_coro(m) ==
    LET o == m.heap[Top(m)]
        m1 == Recv(m, "self")
        r == ValFn(o.f, m.ret.v)
        m2 == Call(m1, "f", m.ret)
    IN IF m.ret.k = "err" THEN ExceptRaise(m1, "e", o.guard, o.e)
       ELSE IF r.k = "val" THEN Finish(m2, Ok(r.v))
       ELSE Finish(RaiseNew(m2, r.cls, 0), Err(Len(m.errs) + 1))

\* unwrap_or_else_coro with "except Exception as e:"
\* unwrap_or_else_coro that calls f with a copy of the error,
\* f(type(e)(*e.args)), and not with the error it caught
unwrap_or_else_coro_copy(m) ==
    LET o == m.heap[Top(m)]
        m1 == Recv(m, "self")
        e == m.ret.v
        m2 == Call(Except(m1, e), "guard", m.ret)
        r == ErrFn(o.f, m.errs[e].cls)
        mc == RaiseNew(m2, m.errs[e].cls, 0)
        m3 == Call(mc, "f", mc.ret)
        m4 == FnRaise(m3, r, e)
    IN IF m.ret.k = "val" THEN Finish(m1, m.ret)
       ELSE IF ~guard(o.guard, m.errs[e].cls) THEN Finish(m2, Err(e))
       ELSE IF r.k = "val" THEN Finish(m3, Ok(r.v))
       ELSE Finish(m4, m4.ret)

unwrap_or_else_coro_exception(m) ==
    LET o == m.heap[Top(m)]
        m1 == Recv(m, "self")
        e == m.ret.v
        m2 == Call(Except(m1, e), "guard", m.ret)
        r == ErrFn(o.f, m.errs[e].cls)
        m3 == Call(m2, "f", m.ret)
        m4 == FnRaise(m3, r, e)
    IN IF m.ret.k = "val" THEN Finish(m1, m.ret)
       ELSE IF ~isinstance(m.errs[e].cls, {"Exception"})
       THEN Finish(m1, Err(e))
       ELSE IF ~guard(o.guard, m.errs[e].cls) THEN Finish(m2, Err(e))
       ELSE IF r.k = "val" THEN Finish(m3, Ok(r.v))
       ELSE Finish(m4, m4.ret)

\* unwrap_or_else_coro that re-raises the original error when f raises
unwrap_or_else_coro_reraise(m) ==
    LET o == m.heap[Top(m)]
        m1 == Recv(m, "self")
        e == m.ret.v
        m2 == Call(Except(m1, e), "guard", m.ret)
        r == ErrFn(o.f, m.errs[e].cls)
        m3 == Call(m2, "f", m.ret)
    IN IF m.ret.k = "val" THEN Finish(m1, m.ret)
       ELSE IF ~guard(o.guard, m.errs[e].cls) THEN Finish(m2, Err(e))
       ELSE IF r.k = "val" THEN Finish(m3, Ok(r.v))
       ELSE Finish(m3, Err(e))

\* unwrap_or_else_coro with the inner try of map_err_coro around f(e):
\* "raise f_e from None"
unwrap_or_else_coro_fromnone(m) ==
    LET o == m.heap[Top(m)]
        m1 == Recv(m, "self")
        e == m.ret.v
        m2 == Call(Except(m1, e), "guard", m.ret)
        r == ErrFn(o.f, m.errs[e].cls)
        m3 == Call(m2, "f", m.ret)
        m4 == FnRaise(m3, r, e)
    IN IF m.ret.k = "val" THEN Finish(m1, m.ret)
       ELSE IF ~guard(o.guard, m.errs[e].cls) THEN Finish(m2, Err(e))
       ELSE IF r.k = "val" THEN Finish(m3, Ok(r.v))
       ELSE Finish(RaiseFromNone(m4, m4.ret.v), m4.ret)

\* async def unwrap_or_else_coro():
\*     try: return await self
\*     except BaseException as e:
\*         if error_guard(e): return f(e)
\*         raise
unwrap_or_else_coro(m) ==
    LET o == m.heap[Top(m)]
        m1 == Recv(m, "self")
        e == m.ret.v
        m2 == Call(Except(m1, e), "guard", m.ret)
        r == ErrFn(o.f, m.errs[e].cls)
        m3 == Call(m2, "f", m.ret)
        m4 == FnRaise(m3, r, e)
    IN IF m.ret.k = "val" THEN Finish(m1, m.ret)
       ELSE IF GuardFn(o.guard, m.errs[e].cls).k = "raise"
       THEN GuardRaised(m2, GuardFn(o.guard, m.errs[e].cls))
       ELSE IF ~guard(o.guard, m.errs[e].cls) THEN Finish(m2, Err(e))
       ELSE IF r.k = "val" THEN Finish(m3, Ok(r.v))
       ELSE Finish(m4, m4.ret)

\* the body of the stage coroutine of operator op
\* a _coro that awaits self and does not return what it got
_coro_noreturn(m) ==
    Finish(Recv(m, "self"), IF m.ret.k = "val" THEN Ok(0) ELSE m.ret)

\* async def _coro(self): return await self
_coro(m) == Finish(Recv(m, "self"), m.ret)

StageStep(op, m) ==
    CASE op = "map" -> map_coro(m)
      [] op = "_coro" -> _coro(m)
      [] op = "then" -> then_coro(m)
      [] op = "or_else" -> or_else_coro(m)
      [] op = "map_err" -> map_err_coro(m)
      [] op = "map_ok_or_else" -> map_ok_or_else_coro(m)
      [] OTHER -> unwrap_or_else_coro(m)

\* the stage coroutine on top of task t's stack runs up to its next await
\* or to its end
Run(t, op) ==
    /\ Runs(t)
    /\ heap[OnTop(t)].kind = "stage"
    /\ heap[OnTop(t)].op = op
    /\ tasks[t].ret # None
    /\ Commit(t, StageStep(op, M(t)))

Ops == {"map", "then", "or_else", "map_err", "map_ok_or_else",
        "unwrap_or_else"}

\* the coroutines of the chain that ends in combinator c: the stage
\* coroutines of c and of the combinators under it, and the coroutine at
\* the root
RECURSIVE ChainOf(_)
ChainOf(c) ==
    LET a == __await__(heap, c)
    IN CASE heap[a].kind = "stage" -> {a} \cup ChainOf(heap[a].self)
         [] heap[a].kind = "coro" -> {a}
         [] OTHER -> {}

\* no coroutine behind combinator c is suspended under a caller
AtRest(c) == \A co \in ChainOf(c) : heap[co].pc \in {"new", "done"}

\* what the caller's root coroutine does: return a value, raise, or raise
\* "from" an exception it caught
Outs ==
    [v : Val, cls : {""}, from : {""}]
      \cup [v : {0}, cls : {"ValueError", "KeyError"}, from : {""}]
      \cup {[v |-> 0, cls |-> "KeyError", from |-> "ValueError"],
            [v |-> 0, cls |-> "ValueError", from |-> "KeyError"]}

\* the pairs (f, e) passed to map_ok_or_else
MokFns == {<<"inc", "to_key">>, <<"boom", "dflt">>, <<"inc", "same">>}

\* The callers construct combinators, call the operators and await in any
\* order; a caller awaits a combinator when no coroutine behind it is
\* suspended under another caller (SpecShared has callers that await the
\* same computation at the same time).
Next ==
    \/ \E o \in Outs : init(o.v, o.cls, o.from)
    \/ \E c \in Combs, f \in ValFns : map(c, f)
    \/ \E c \in Combs, f \in AsyncValFns : then(c, f)
    \/ \E c \in Combs, f \in AsyncErrFns, g \in Guards : or_else(c, f, g)
    \/ \E c \in Combs, f \in ErrFns, g \in Guards : map_err(c, f, g)
    \/ \E c \in Combs, fe \in MokFns, g \in Guards :
          map_ok_or_else(c, fe[1], fe[2], g)
    \/ \E c \in Combs, f \in ErrFns, g \in Guards : unwrap_or_else(c, f, g)
    \/ \E t \in Tasks, c \in Combs : AtRest(c) /\ Drive(t, c)
    \/ \E t \in Tasks : Suspend(t)
    \/ \E t \in Tasks : Resume(t)
    \/ \E t \in Tasks : Return(t)
    \/ \E t \in Tasks, op \in Ops : Run(t, op)

Spec == Init /\ [][Next]_vars

\* ------------------------------------------------------- one linear chain
\* A caller builds one chain, AsyncCombinator(x).op1(...).op2(...)..., of
\* at most MaxStages operators and then awaits: it is the only caller, and
\* it awaits one of the combinators of the chain.
MaxStages == 2

\* what the chain is built on: a coroutine that returns a value, one that
\* raises ValueError, one that is cancelled, or a value that is not
\* awaitable
ChainRoots ==
    {Coro(v, "", "") : v \in Val}
      \cup {Coro(0, "ValueError", ""), Coro(0, "CancelledError", ""),
            Value(0)}

Stage(op, f, e, g) == [op |-> op, f |-> f, e |-> e, guard |-> g]

\* the operator calls of the chain
ChainStages ==
    {Stage("map", "inc", "", ""),
     Stage("map", "boom", "", ""),
     Stage("then", "ainc", "", ""),
     Stage("or_else", "arec", "", "is_value_error"),
     Stage("or_else", "arec", "", "is_key_error"),
     Stage("or_else", "afail", "", "is_base_exception"),
     Stage("map_err", "to_key", "", "is_value_error"),
     Stage("map_err", "dflt", "", "is_exception"),
     Stage("map_ok_or_else", "inc", "dflt", "is_value_error"),
     Stage("map_ok_or_else", "boom", "to_key", "is_exception"),
     Stage("unwrap_or_else", "dflt", "", "is_base_exception"),
     Stage("unwrap_or_else", "same", "", "is_value_error")}

\* the combinator the last operator returned
Last == CHOOSE c \in Combs : \A d \in Combs : d <= c

\* an __init__ that accepts awaitables only
root_checked(x) ==
    /\ heap = <<>>
    /\ x.kind # "value"
    /\ heap' = <<x, Combinator(1)>>
    /\ UNCHANGED <<errs, tasks, running, log>>

\* AsyncCombinator(x)
root(x) ==
    /\ heap = <<>>
    /\ heap' = <<x, Combinator(1)>>
    /\ UNCHANGED <<errs, tasks, running, log>>

\* .op(...) on the combinator the expression has built so far
attach(st) ==
    /\ heap # <<>>
    /\ log = <<>>
    /\ Cardinality(Stages) < MaxStages
    /\ heap' = heap \o <<StageCoro(st.op, Last, st.f, st.e, st.guard),
                          Combinator(Len(heap) + 1)>>
    /\ UNCHANGED <<errs, tasks, running, log>>

NextChain ==
    \/ \E x \in ChainRoots : root(x)
    \/ \E st \in ChainStages : attach(st)
    \/ \E c \in Combs : Drive(1, c)
    \/ Suspend(1)
    \/ Resume(1)
    \/ Return(1)
    \/ \E op \in Ops : Run(1, op)

SpecChain == Init /\ [][NextChain]_vars

\* ------------------------------------------------- a chain that is run
\* One chain under an event loop that resumes every suspended task, with
\* coroutines of the caller (the root and those that the functions of then
\* and or_else return) that suspend any number of times and then end.
LiveRoots == {Coro(0, "", ""), Coro(0, "ValueError", "")}

LiveStages ==
    {Stage("map", "inc", "", ""),
     Stage("then", "ainc", "", ""),
     Stage("then", "afail", "", ""),
     Stage("or_else", "arec", "", "is_value_error"),
     Stage("or_else", "afail", "", "is_value_error")}

NextLive ==
    \/ \E x \in LiveRoots : root(x)
    \/ \E st \in LiveStages : attach(st)
    \/ \E c \in Combs : c = Last /\ Drive(1, c)
    \/ Suspend(1)
    \/ Resume(1)
    \/ Return(1)
    \/ \E op \in Ops : Run(1, op)

\* the loop resumes a task that is ready; a coroutine that runs goes on to
\* its next await or to its end; and a coroutine of the caller, resumed
\* again and again, ends at some time
SpecLive ==
    /\ Init
    /\ [][NextLive]_vars
    /\ WF_vars(Resume(1))
    /\ WF_vars(\E op \in Ops : Run(1, op))
    /\ SF_vars(Return(1))

\* ----------------------------------------------------- two expressions
\* A caller builds two expressions on two instances of the same coroutine
\* function and awaits both: caller 1 the one, caller 2 the other.
Sides == {1, 2}

InitPair ==
    /\ heap = <<>>
    /\ errs = <<>>
    /\ tasks = [t \in Sides |-> NoTask]
    /\ running = 0
    /\ log = <<>>

\* the combinators the caller holds at the end of its expressions: those
\* that are not the receiver of a stage, not wrapped in another combinator
\* and not returned by a function to the stage that called it
Outermost ==
    {c \in Combs : \A i \in Ids :
        /\ ~(heap[i].kind = "stage" /\ heap[i].self = c)
        /\ ~(heap[i].kind = "comb" /\ heap[i].aw = c)
        /\ ~(heap[i].kind = "stage" /\ heap[i].aw = heap[c].aw)}

\* AsyncCombinator(x) followed by the operator calls sts
RECURSIVE Chain(_, _)
Chain(H, sts) ==
    IF sts = <<>> THEN H
    ELSE Chain(H \o <<StageCoro(sts[1].op, Len(H), sts[1].f, sts[1].e,
                                 sts[1].guard),
                      Combinator(Len(H) + 1)>>,
               Tail(sts))

Expr(H, x, sts) == Chain(H \o <<x, Combinator(Len(H) + 1)>>, sts)

FuseFns == {"inc", "dbl", "boom"}

\* c.map(f).map(g) and c.map(lambda x: g(f(x)))
fuse(o, f, g) ==
    /\ heap = <<>>
    /\ heap' = Expr(Expr(<<>>, Coro(o.v, o.cls, o.from),
                          <<Stage("map", f, "", ""), Stage("map", g, "", "")>>),
                     Coro(o.v, o.cls, o.from),
                     <<Stage("map", Compose(f, g), "", "")>>)
    /\ UNCHANGED <<errs, tasks, running, log>>

NextFusion ==
    \/ \E o \in Outs, f \in FuseFns, g \in FuseFns : fuse(o, f, g)
    \/ \E t \in Sides, c \in Outermost : Drive(t, c)
    \/ \E t \in Sides : Suspend(t)
    \/ \E t \in Sides : Resume(t)
    \/ \E t \in Sides : Return(t)
    \/ \E t \in Sides : Run(t, "map")

SpecFusion == InitPair /\ [][NextFusion]_vars

\* AsyncCombinator(c) and c, for a combinator c: a bare one or one that an
\* operator returned
rewrap(x, sts) ==
    /\ heap = <<>>
    /\ LET L == Expr(<<>>, x, sts)
       IN heap' = Expr(L \o <<Combinator(Len(L))>>, x, sts)
    /\ UNCHANGED <<errs, tasks, running, log>>

\* c.then(f) with f returning AsyncCombinator(x), and with f returning x
then_comb(x, f) ==
    /\ heap = <<>>
    /\ heap' = Expr(Expr(<<>>, x, <<Stage("then", InCombFn(f), "", "")>>),
                     x, <<Stage("then", f, "", "")>>)
    /\ UNCHANGED <<errs, tasks, running, log>>

\* c.or_else(f, g), likewise
or_else_comb(x, f, g) ==
    /\ heap = <<>>
    /\ heap' = Expr(Expr(<<>>, x, <<Stage("or_else", InCombFn(f), "", g)>>),
                     x, <<Stage("or_else", f, "", g)>>)
    /\ UNCHANGED <<errs, tasks, running, log>>

NextWrap ==
    \/ \E x \in ChainRoots, sts \in {<<>>} \cup {<<st>> : st \in ChainStages} :
          rewrap(x, sts)
    \/ \E x \in ChainRoots, f \in AsyncValFns : then_comb(x, f)
    \/ \E x \in ChainRoots, f \in AsyncErrFns,
          g \in {"is_value_error", "is_base_exception"} : or_else_comb(x, f, g)
    \/ \E t \in Sides, c \in Outermost : Drive(t, c)
    \/ \E t \in Sides : Suspend(t)
    \/ \E t \in Sides : Resume(t)
    \/ \E t \in Sides : Return(t)
    \/ \E t \in Sides, op \in Ops : Run(t, op)

SpecWrap == InitPair /\ [][NextWrap]_vars

\* ------------------------------------------------- guards and handlers
\* One chain whose stages take the guards error_guard(), error_guard(
\* ValueError, LookupError) and a guard that raises, with handlers that
\* raise "from" an exception; the chain is awaited as a whole.
GuardRoots ==
    {Coro(v, "", "") : v \in Val}
      \cup {Coro(0, "ValueError", ""), Coro(0, "KeyError", ""),
            Coro(0, "RuntimeError", "")}

StageGuards == {"is_nothing", "is_value_or_lookup", "has_code"}

GuardStages ==
    {Stage("or_else", "afail_from", "", g) : g \in StageGuards}
      \cup {Stage("map_err", "to_key_from", "", g) : g \in StageGuards}
      \cup {Stage("map_ok_or_else", "inc", "to_key_from", g) :
               g \in StageGuards}
      \cup {Stage("unwrap_or_else", "to_key_from", "", g) :
               g \in StageGuards}

NextGuard ==
    \/ \E x \in GuardRoots : root(x)
    \/ \E st \in GuardStages : attach(st)
    \/ \E c \in Combs : c = Last /\ Drive(1, c)
    \/ Suspend(1)
    \/ Resume(1)
    \/ Return(1)
    \/ \E op \in Ops : Run(1, op)

SpecGuard == Init /\ [][NextGuard]_vars

\* ---------------------------------------------------- called combinators
\* One chain; its outermost combinator is called, c(), by each of two
\* callers at most once, before or after anything was awaited; each caller
\* awaits the combinator or a coroutine that a call returned.
CallRoots == {Coro(0, "", ""), Coro(0, "ValueError", "")}

CallStages ==
    {Stage("map", "inc", "", ""),
     Stage("then", "ainc", "", ""),
     Stage("unwrap_or_else", "dflt", "", "is_exception")}

\* def __call__(self): return self._coro()
\* A coroutine object of _coro, not started.
__call__(c) ==
    /\ running = 0
    /\ c \in Combs
    /\ Cardinality(Calls) < Cardinality(Sides)
    /\ heap' = Append(heap, StageCoro("_coro", c, "", "", ""))
    /\ UNCHANGED <<errs, tasks, running, log>>

\* A caller awaits a coroutine object that nobody else is awaiting at the
\* moment ("await k" of a coroutine in the middle of another caller's
\* await is another error of Python than the one of a combinator).
NextCall ==
    \/ \E x \in CallRoots : root(x)
    \/ \E st \in CallStages : attach(st)
    \/ \E c \in Combs : c = Last /\ __call__(c)
    \/ \E t \in Sides, c \in Combs : c = Last /\ Drive(t, c)
    \/ \E t \in Sides, k \in Calls :
          heap[k].pc \in {"new", "done"} /\ Drive(t, k)
    \/ \E t \in Sides : Suspend(t)
    \/ \E t \in Sides : Resume(t)
    \/ \E t \in Sides : Return(t)
    \/ \E t \in Sides, op \in Ops \cup {"_coro"} : Run(t, op)

SpecCall == InitPair /\ [][NextCall]_vars

\* --------------------------------------------------- independent chains
\* Two chains, each on a coroutine of its own and with functions of its
\* own, each awaited by one caller; the event loop runs the two callers in
\* any order.
PairRoots == {Coro(0, "", ""), Coro(0, "ValueError", "")}

PairStages ==
    {Stage("map", "inc", "", ""),
     Stage("then", "ainc", "", ""),
     Stage("unwrap_or_else", "dflt", "", "is_value_error"),
     Stage("map_err", "to_key", "", "is_value_error")}

\* the sequences of at most n operator calls
RECURSIVE StageSeqs(_)
StageSeqs(n) ==
    IF n = 0 THEN {<<>>}
    ELSE LET S == StageSeqs(n - 1)
         IN S \cup {Append(q, st) : q \in S, st \in PairStages}

\* AsyncCombinator(x1).op(...)... and AsyncCombinator(x2).op(...)...
pair(x1, sts1, x2, sts2) ==
    /\ heap = <<>>
    /\ heap' = Expr(Expr(<<>>, x1, sts1), x2, sts2)
    /\ UNCHANGED <<errs, tasks, running, log>>

NextPair ==
    \/ \E x1 \in PairRoots, x2 \in PairRoots :
          \E sts1 \in StageSeqs(MaxStages - 1), sts2 \in StageSeqs(MaxStages - 1) :
              pair(x1, sts1, x2, sts2)
    \/ \E t \in Sides, c \in Outermost :
          heap[__await__(heap, c)].pc = "new" /\ Drive(t, c)
    \/ \E t \in Sides : Suspend(t)
    \/ \E t \in Sides : Resume(t)
    \/ \E t \in Sides : Return(t)
    \/ \E t \in Sides, op \in Ops : Run(t, op)

SpecPair == InitPair /\ [][NextPair]_vars

\* ------------------------------------------- callers that share objects
\* Two callers hold the combinators built on one coroutine: they call
\* operators on any of them, so that two chains may have a receiver in
\* common, and each awaits any of them, at any time, also one that the
\* other caller has awaited or is awaiting.
SharedRoots == {Coro(0, "", ""), Coro(0, "ValueError", "")}

SharedStages ==
    {Stage("map", "inc", "", ""),
     Stage("then", "ainc", "", ""),
     Stage("unwrap_or_else", "dflt", "", "is_exception")}

\* c.op(...) on any combinator the callers hold
call(c, st) ==
    /\ running = 0
    /\ c \in Combs
    /\ Cardinality(Stages) < MaxStages
    /\ heap' = heap \o <<StageCoro(st.op, c, st.f, st.e, st.guard),
                          Combinator(Len(heap) + 1)>>
    /\ UNCHANGED <<errs, tasks, running, log>>

NextShared ==
    \/ \E x \in SharedRoots : root(x)
    \/ \E c \in Combs, st \in SharedStages : call(c, st)
    \/ \E t \in Sides, c \in Combs : Drive(t, c)
    \/ \E t \in Sides : Suspend(t)
    \/ \E t \in Sides : Resume(t)
    \/ \E t \in Sides : Return(t)
    \/ \E t \in Sides, op \in Ops : Run(t, op)

SpecShared == InitPair /\ [][NextShared]_vars

\* ------------------------------------------------------ reading the log
LogIdx == 1..Len(log)

\* the positions where stage s invoked the caller's function in role
CallsOf(s, role) ==
    {i \in LogIdx : log[i].ev = "call" /\ log[i].co = s /\ log[i].role = role}

\* the outcomes "await self" delivered to stage s (at most one per drive)
RecvSelf(s) ==
    {log[i].out : i \in {j \in LogIdx : log[j].ev = "recv" /\ log[j].co = s
                                          /\ log[j].role = "self"}}

\* the outcome coroutine co ended with, as a set (empty while it has none)
ResolvedOut(co) ==
    {log[i].out : i \in {j \in LogIdx : log[j].ev = "resolved"
                                          /\ log[j].co = co}}

\* the coroutine objects the function of stage s returned
MadeBy(s) ==
    {log[i].out.v : i \in {j \in LogIdx : log[j].ev = "made" /\ log[j].co = s}}

Begun(co) == \E i \in LogIdx : log[i].ev = "begin" /\ log[i].co = co

StagesOf(op) == {s \in Stages : heap[s].op = op}

\* between the moment stage s got the outcome of "await self" and its end,
\* no coroutine was created, started or driven
NothingDrivenBy(s) ==
    \A i, j \in LogIdx :
        (/\ log[i].ev = "recv" /\ log[i].co = s
         /\ log[j].ev = "resolved" /\ log[j].co = s)
        => \A k \in i..j : log[k].ev \notin {"made", "begin", "drive"}

\* stage s received error e from its receiver and its guard says m
Failed(s, e, m) ==
    /\ Err(e) \in RecvSelf(s)
    /\ guard(heap[s].guard, errs[e].cls) = m

\* ------------------------------------------------------------ the claims

\* C1: when the receiver of a map stage resolves to a success value v, the
\* stage invokes f exactly once, with v, and resolves to f(v): to the value
\* f returns, or, when f raises, to a failure of the class f raises.
C1_MapAppliesOnce ==
    \A s \in StagesOf("map") : \A r \in RecvSelf(s) :
        r.k = "val" =>
            /\ Cardinality(CallsOf(s, "f")) = 1
            /\ \A i \in CallsOf(s, "f") : log[i].out = r
            /\ ResolvedOut(s) # {}
            /\ \A o \in ResolvedOut(s) :
                 LET x == ValFn(heap[s].f, r.v)
                 IN IF x.k = "val" THEN o = Ok(x.v)
                    ELSE o.k = "err" /\ errs[o.v].cls = x.cls

C1_Witness ==
    \E s \in StagesOf("map") : \E r \in RecvSelf(s) :
        /\ r.k = "val"
        /\ \E o \in ResolvedOut(s) : o.k = "val" /\ o.v # r.v
        /\ tasks[1].st = "done"

\* C2: when the receiver of a map stage fails with error e, f is never
\* invoked and the stage fails with the same error object e.
C2_MapPropagates ==
    \A s \in StagesOf("map") : \A r \in RecvSelf(s) :
        r.k = "err" =>
            /\ CallsOf(s, "f") = {}
            /\ ResolvedOut(s) = {r}

C2_Witness ==
    \E s \in StagesOf("map") : \E r \in RecvSelf(s) :
        /\ r.k = "err"
        /\ tasks[1].st = "done"
        /\ tasks[1].result = r

GuardedOps == {"or_else", "map_err", "map_ok_or_else", "unwrap_or_else"}

\* the events a step appended to the log
Appended == SubSeq(log', Len(log) + 1, Len(log'))

\* C3: in or_else, map_err, map_ok_or_else and unwrap_or_else, when the
\* receiver fails with error e and guard(e) is false, the step that handles
\* the failure invokes no handler, ends the stage with the same error
\* object e, and changes no exception object (cause, context and
\* suppression of e are what they were).
C3_GuardMismatch ==
    [][\A t \in Tasks :
          LET s == OnTop(t)
              e == tasks[t].ret.v
          IN (/\ Runs(t)
              /\ heap[s].op \in GuardedOps
              /\ heap[s].pc = "await_self"
              /\ tasks[t].ret.k = "err"
              /\ ~guard(heap[s].guard, errs[e].cls))
             => /\ errs' = errs
                /\ log'[Len(log')] = Ev("resolved", s, "", Err(e))
                /\ \A i \in 1..Len(Appended) :
                     Appended[i].ev = "call" => Appended[i].role = "guard"
                /\ \A i \in 1..Len(Appended) : Appended[i].ev # "made"]_vars

C3_Witness ==
    \E s \in Stages : \E e \in 1..Len(errs) :
        /\ heap[s].op \in GuardedOps
        /\ Failed(s, e, FALSE)
        /\ errs[e].cause # 0
        /\ tasks[1].st = "done"
        /\ tasks[1].result = Err(e)

\* C4: or_else, when the receiver fails with error e and guard(e) is true:
\* f is invoked once, with e; the coroutine f returns is driven; and the
\* stage ends with exactly the outcome of that coroutine, a value or an
\* error.
C4_OrElseRecovers ==
    \A s \in StagesOf("or_else") : \A e \in 1..Len(errs) :
        Failed(s, e, TRUE) =>
            /\ Cardinality(CallsOf(s, "f")) = 1
            /\ \A i \in CallsOf(s, "f") : log[i].out = Err(e)
            /\ Cardinality(MadeBy(s)) = 1
            /\ \A c \in MadeBy(s) :
                 /\ Begun(c)
                 /\ \A o \in ResolvedOut(s) : ResolvedOut(c) = {o}

C4_Witness ==
    \E s \in StagesOf("or_else") : \E e \in 1..Len(errs) :
        /\ Failed(s, e, TRUE)
        /\ \E c \in MadeBy(s) : ResolvedOut(c) # {}
        /\ tasks[1].st = "done"
        /\ tasks[1].result \in ResolvedOut(s)
        /\ tasks[1].result.k = "err"

\* C5: unwrap_or_else, when the receiver fails with error e and guard(e) is
\* true: f is invoked once with e and the stage ends in the same step,
\* without creating or driving a computation, with the value f returns; if
\* f raises, the stage fails with the error f raised.
C5_UnwrapOrElse ==
    \A s \in StagesOf("unwrap_or_else") : \A e \in 1..Len(errs) :
        Failed(s, e, TRUE) =>
            LET x == ErrFn(heap[s].f, errs[e].cls)
            IN /\ Cardinality(CallsOf(s, "f")) = 1
               /\ \A i \in CallsOf(s, "f") : log[i].out = Err(e)
               /\ MadeBy(s) = {}
               /\ heap[s].aw = 0
               /\ NothingDrivenBy(s)
               /\ ResolvedOut(s) # {}
               /\ \A o \in ResolvedOut(s) :
                    CASE x.k = "val" -> o = Ok(x.v)
                      [] x.how = "same" -> o = Err(e)
                      [] OTHER -> /\ o.k = "err"
                                  /\ o.v # e
                                  /\ errs[o.v].cls = x.cls

C5_Witness ==
    \E s \in StagesOf("unwrap_or_else") : \E e \in 1..Len(errs) :
        /\ Failed(s, e, TRUE)
        /\ tasks[1].st = "done"
        /\ tasks[1].result = Ok(ErrVal(errs[e].cls))
        /\ ErrVal(errs[e].cls) # 0

\* C6: map_err, when the receiver fails with error e, guard(e) is true and
\* f raises: f was invoked once with e, and the stage fails with the error
\* f raised, whose __cause__ is None and whose context is suppressed: it
\* is not chained to e, whatever f attached.  (Python still keeps e in the
\* suppressed __context__ of an exception raised while e was handled.)
C6_MapErrReplaces ==
    \A s \in StagesOf("map_err") : \A e \in 1..Len(errs) :
        LET x == ErrFn(heap[s].f, errs[e].cls)
        IN (Failed(s, e, TRUE) /\ x.k = "raise") =>
            /\ Cardinality(CallsOf(s, "f")) = 1
            /\ \A i \in CallsOf(s, "f") : log[i].out = Err(e)
            /\ ResolvedOut(s) # {}
            /\ \A o \in ResolvedOut(s) :
                 /\ o.k = "err"
                 /\ errs[o.v].cls = x.cls
                 /\ (x.how = "same") = (o.v = e)
                 /\ errs[o.v].cause = 0
                 /\ errs[o.v].suppress

C6_Witness ==
    \E s \in StagesOf("map_err") : \E e \in 1..Len(errs) :
        /\ Failed(s, e, TRUE)
        /\ heap[s].f = "to_key_from"
        /\ tasks[1].st = "done"
        /\ tasks[1].result.k = "err"
        /\ tasks[1].result.v # e
        /\ errs[tasks[1].result.v].cls = "KeyError"

\* C7: map_ok_or_else invokes at most one of f (ok) and e (err) per drive.
\* Receiver success v: only f, once, and the stage ends with f(v).
\* Receiver failure that matches the guard: only e, once, and when e raises
\* the stage fails with the error e raised.  Receiver failure that does not
\* match: neither, and the stage fails with the original error.
C7_MapOkOrElseOneBranch ==
    \A s \in StagesOf("map_ok_or_else") :
        /\ Cardinality(CallsOf(s, "f")) + Cardinality(CallsOf(s, "e")) <= 1
        /\ \A r \in RecvSelf(s) :
             LET x == ValFn(heap[s].f, r.v)
                 y == ErrFn(heap[s].e, errs[r.v].cls)
             IN /\ ResolvedOut(s) # {}
                /\ r.k = "val" =>
                     /\ Cardinality(CallsOf(s, "f")) = 1
                     /\ \A i \in CallsOf(s, "f") : log[i].out = r
                     /\ \A o \in ResolvedOut(s) :
                          IF x.k = "val" THEN o = Ok(x.v)
                          ELSE o.k = "err" /\ errs[o.v].cls = x.cls
                /\ (r.k = "err" /\ Failed(s, r.v, TRUE)) =>
                     /\ Cardinality(CallsOf(s, "e")) = 1
                     /\ \A i \in CallsOf(s, "e") : log[i].out = r
                     /\ y.k = "raise" =>
                          \A o \in ResolvedOut(s) :
                              /\ o.k = "err"
                              /\ errs[o.v].cls = y.cls
                              /\ (y.how = "same") = (o = r)
                /\ (r.k = "err" /\ Failed(s, r.v, FALSE)) =>
                     /\ CallsOf(s, "f") = {}
                     /\ CallsOf(s, "e") = {}
                     /\ ResolvedOut(s) = {r}

C7_Witness ==
    \E s \in StagesOf("map_ok_or_else") : \E e \in 1..Len(errs) :
        /\ Failed(s, e, TRUE)
        /\ heap[s].e = "to_key"
        /\ CallsOf(s, "f") = {}
        /\ tasks[1].st = "done"
        /\ tasks[1].result.k = "err"
        /\ tasks[1].result.v # e

\* C8: then, when the receiver succeeds with v: f is invoked with v, after
\* the receiver's coroutine has ended with v; before the stage ends, the
\* coroutine f returned is started and runs to its end; and the stage ends
\* with the outcome of that coroutine, so its success value is the value
\* that coroutine yields.
C8_ThenSequences ==
    \A s \in StagesOf("then") :
        /\ \A i \in CallsOf(s, "f") :
             \E j \in 1..(i - 1) :
                 /\ log[j].ev = "resolved"
                 /\ log[j].co = __await__(heap, heap[s].self)
                 /\ log[j].out.k = "val"
                 /\ log[j].out = log[i].out
        /\ \A k \in LogIdx :
             (/\ log[k].ev = "resolved" /\ log[k].co = s
              /\ \E r \in RecvSelf(s) : r.k = "val")
             => \E c \in MadeBy(s) : \E j1, j2 \in 1..(k - 1) :
                    /\ j1 < j2
                    /\ log[j1] = Ev("begin", c, "", None)
                    /\ log[j2] = Ev("resolved", c, "", log[k].out)

C8_Witness ==
    \E s \in StagesOf("then") :
        /\ CallsOf(s, "f") # {}
        /\ tasks[1].st = "done"
        /\ tasks[1].result.k = "val"
        /\ tasks[1].result \in ResolvedOut(s)
        /\ \A r \in RecvSelf(s) : r # tasks[1].result

\* C9: then, when the receiver fails: f is never invoked, no second
\* coroutine is created or driven, and the stage fails with the receiver's
\* error.  When the receiver succeeds and the coroutine f returned fails,
\* the stage fails with that failure.
C9_ThenErrors ==
    \A s \in StagesOf("then") : \A r \in RecvSelf(s) :
        /\ r.k = "err" =>
             /\ CallsOf(s, "f") = {}
             /\ MadeBy(s) = {}
             /\ heap[s].aw = 0
             /\ NothingDrivenBy(s)
             /\ ResolvedOut(s) = {r}
        /\ r.k = "val" =>
             \A c \in MadeBy(s) : \A o \in ResolvedOut(c) :
                 o.k = "err" => \A o2 \in ResolvedOut(s) : o2 = o

C9_WitnessSecondFails ==
    \E s \in StagesOf("then") : \E c \in MadeBy(s) :
        /\ tasks[1].st = "done"
        /\ tasks[1].result.k = "err"
        /\ ResolvedOut(c) = {tasks[1].result}
        /\ ResolvedOut(s) = {tasks[1].result}

C9_Witness ==
    \E s \in StagesOf("then") : \E r \in RecvSelf(s) :
        r.k = "err" /\ tasks[1].st = "done" /\ tasks[1].result = r

\* C10: in or_else, map_err and unwrap_or_else, when the receiver succeeds
\* with v the stage succeeds with v itself, the handler f is never invoked
\* and no recovery computation is created.
C10_SuccessPassesThrough ==
    \A s \in StagesOf("or_else") \cup StagesOf("map_err")
               \cup StagesOf("unwrap_or_else") :
        \A r \in RecvSelf(s) :
            r.k = "val" =>
                /\ ResolvedOut(s) = {r}
                /\ CallsOf(s, "f") = {}
                /\ MadeBy(s) = {}

C10_Witness ==
    \E s \in StagesOf("or_else") \cup StagesOf("map_err")
               \cup StagesOf("unwrap_or_else") :
        \E r \in RecvSelf(s) :
            /\ r.k = "val"
            /\ r.v # 0
            /\ tasks[1].st = "done"
            /\ tasks[1].result = r

\* a step that is a call of one of the six operators: it creates the
\* stage coroutine (map_coro(), then_coro(), ...) of the operator
OperatorCall ==
    /\ Len(heap') > Len(heap)
    /\ heap'[Len(heap) + 1].kind = "stage"

\* C11: a call of map, then, or_else, map_err, map_ok_or_else or
\* unwrap_or_else starts no coroutine, invokes no function and no guard (the
\* log, the exceptions and the tasks are as before), leaves every object
\* that existed as it was (the receiver and the computation it wraps
\* included), and returns a combinator that did not exist before, around a
\* stage coroutine that has not started and refers to the receiver.  A
\* coroutine has only started if a caller drove a combinator before.
C11_Lazy ==
    [][/\ OperatorCall =>
            /\ log' = log
            /\ errs' = errs
            /\ tasks' = tasks
            /\ running' = running
            /\ Len(heap') = Len(heap) + 2
            /\ SubSeq(heap', 1, Len(heap)) = heap
            /\ LET n == Len(heap')
               IN /\ heap'[n].kind = "comb"
                  /\ heap'[n].aw = n - 1
                  /\ heap'[n - 1].pc = "new"
                  /\ heap'[n - 1].self \in Combs
       /\ log' # <<>> => log'[1].ev = "drive"
       /\ \A i \in 1..Len(heap') :
            heap'[i].pc \notin {"", "new"} =>
                \E j \in 1..Len(log') : log'[j] = Ev("begin", i, "", None)]_vars

\* a chain was built on a receiver and nothing has run
C11_Witness ==
    /\ log = <<>>
    /\ \E s \in Stages :
         /\ heap[s].pc = "new"
         /\ heap[__await__(heap, heap[s].self)].pc = "new"
         /\ \E c \in Combs : heap[c].aw = s

\* the position in the log where caller t drove a combinator (callers are
\* numbered in the order in which they start), 0 if it has not
DrivesAt == {i \in LogIdx : log[i].ev = "drive"}
DriveOf(t) ==
    LET at == {i \in DrivesAt : Cardinality({j \in DrivesAt : j <= i}) = t}
    IN IF at = {} THEN 0 ELSE CHOOSE i \in at : TRUE

Begins(co) == {i \in LogIdx : log[i] = Ev("begin", co, "", None)}
Ends(co) == {i \in LogIdx : log[i].ev = "resolved" /\ log[i].co = co}

\* the class of the exception named by __cause__, "" if there is none
CauseCls(e) == IF errs[e].cause = 0 THEN "" ELSE errs[errs[e].cause].cls

\* C15: when a caller has driven a bare combinator (one that wraps a
\* caller's coroutine, not a stage) to its end, the caller has exactly one
\* outcome.  The coroutine ends at most once, and the outcome of the caller
\* under which it ended is the outcome of the coroutine: the value the
\* coroutine returns, or the exception object the coroutine raised, of the
\* class (and cause) its body raises.  That is the outcome of the caller
\* that started the coroutine unless another caller awaited the same
\* coroutine meanwhile.  A caller whose await finds the coroutine started
\* or finished by another one gets that outcome or the RuntimeError of a
\* coroutine that cannot be awaited again.
C15_BareOutcome ==
    \A t \in Tasks :
        LET i == DriveOf(t)
            c == log[i].co
            a == heap[c].aw
            o == heap[a]
            r == tasks[t].result
            started == i < Len(log) /\ log[i + 1] = Ev("begin", a, "", None)
            joined == \E j \in LogIdx : log[j] = Ev("join", a, "", None)
        IN (i # 0 /\ tasks[t].st = "done" /\ o.kind = "coro") =>
            /\ r.k \in {"val", "err"}
            /\ Cardinality(Ends(a)) <= 1
            /\ \/ /\ ResolvedOut(a) = {r}
                  /\ o.cls = "" => r = Ok(o.okv)
                  /\ o.cls # "" => /\ r.k = "err"
                                   /\ errs[r.v].cls = o.cls
                                   /\ CauseCls(r.v) = o.from
               \/ /\ r.k = "err"
                  /\ errs[r.v].cls = "RuntimeError"
                  /\ r \notin ResolvedOut(a)
                  /\ ~started \/ joined
            /\ (started /\ ~joined) => ResolvedOut(a) = {r}

\* a bare combinator was driven and its coroutine's failure, an exception
\* with a cause, reached the caller
C15_Witness ==
    \E c \in Combs :
        /\ log # <<>>
        /\ log[1] = Ev("drive", c, "", None)
        /\ heap[heap[c].aw].kind = "coro"
        /\ tasks[1].st = "done"
        /\ tasks[1].result.k = "err"
        /\ ResolvedOut(heap[c].aw) = {tasks[1].result}
        /\ CauseCls(tasks[1].result.v) # ""


\* C12: no coroutine is ever started twice.  Once the first caller has
\* driven the combinator at the end of a chain, every stage coroutine of the
\* chain and the coroutine at its root has been started exactly once, and
\* when that caller has its outcome each of them has run to its end exactly
\* once.
C12_DrivenOnce ==
    /\ \A co \in Ids : Cardinality(Begins(co)) <= 1
    /\ \A co \in Ids : Cardinality(Ends(co)) <= 1
    /\ log # <<>> =>
         \A co \in ChainOf(log[1].co) :
             /\ Cardinality(Begins(co)) = 1
             /\ tasks[1].st = "done" => Cardinality(Ends(co)) = 1

\* a chain of two operators on a coroutine was driven from its end, to the
\* end
C12_Witness ==
    /\ log # <<>>
    /\ log[1] = Ev("drive", Last, "", None)
    /\ Cardinality(ChainOf(Last)) = 3
    /\ tasks[1].st = "done"
    /\ \A co \in ChainOf(Last) : Begins(co) # {} /\ Ends(co) # {}

\* the positions where stage s invoked any of the caller's functions: its
\* continuation, its handler or its guard
AllCallsOf(s) == {i \in LogIdx : log[i].ev = "call" /\ log[i].co = s}

\* C13: while one caller drives a chain, a stage invokes its continuation,
\* handler or guard only after the coroutine of its receiver (the stage
\* attached before it, or the root) has ended, after every function call of
\* that stage, and after every coroutine that stage created and drove has
\* ended; so the functions of a chain run in the order of the stages.
C13_Sequential ==
    Cardinality(DrivesAt) = 1 =>
        \A s \in Stages :
            LET a == __await__(heap, heap[s].self)
            IN heap[a].kind \in {"stage", "coro"} =>
                \A i \in AllCallsOf(s) :
                    /\ \E j \in Ends(a) : j < i
                    /\ \A j \in AllCallsOf(a) : j < i
                    /\ \A c \in MadeBy(a) : \E j \in Ends(c) : j < i

\* two stages ran: the first one called its function and drove the
\* coroutine it returned, then the second one called its own
C13_Witness ==
    /\ Cardinality(DrivesAt) = 1
    /\ tasks[1].st = "done"
    /\ \E s \in Stages :
         LET a == __await__(heap, heap[s].self)
         IN /\ heap[a].kind = "stage"
            /\ CallsOf(s, "f") # {}
            /\ CallsOf(a, "f") # {}
            /\ \E c \in MadeBy(a) : Ends(c) # {}

\* an outcome without the identity of the exception object: the value, or
\* the class of the exception, the class of its cause and of its context,
\* and whether the context is suppressed
ClsOf(e) == IF e = 0 THEN "" ELSE errs[e].cls
Shape(out) ==
    IF out.k = "err"
    THEN <<"err", errs[out.v].cls, ClsOf(errs[out.v].cause),
           ClsOf(errs[out.v].context), errs[out.v].suppress>>
    ELSE <<out.k, out.v>>

\* the caller that drove combinator c, 0 if none did
DriverOf(c) ==
    IF \E t \in DOMAIN tasks : DriveOf(t) # 0 /\ log[DriveOf(t)].co = c
    THEN CHOOSE t \in DOMAIN tasks : DriveOf(t) # 0 /\ log[DriveOf(t)].co = c
    ELSE 0

\* both expressions have been driven to their end
BothDone == \A c \in Outermost : DriverOf(c) # 0 /\ tasks[DriverOf(c)].st = "done"

\* C14: when c.map(f).map(g) and c.map(lambda x: g(f(x))), built on two
\* instances of the same computation, have both been driven to their end,
\* the two outcomes are the same: the same value, or a failure of the same
\* class with the same cause and context.
C14_MapFusion ==
    BothDone =>
        \A c, d \in Outermost :
            Shape(tasks[DriverOf(c)].result) = Shape(tasks[DriverOf(d)].result)

\* both were driven; f and g do not commute and the outcome is g(f(v))
C14_Witness ==
    /\ heap # <<>>
    /\ BothDone
    /\ heap[3].f = "dbl"
    /\ heap[5].f = "inc"
    /\ \A c \in Outermost : tasks[DriverOf(c)].result = Ok(1)

C17_NoSwallow ==
    \A s \in Stages : \A r \in RecvSelf(s) : \A o \in ResolvedOut(s) :
        r.k = "err" =>
            \/ o = r
            \/ o.k = "err" /\ o.v > r.v
            \/ /\ o.k = "val"
               /\ heap[s].op \in {"or_else", "unwrap_or_else"}
               /\ Failed(s, r.v, TRUE)
               /\ \E i \in CallsOf(s, "f") : log[i].out = r
               /\ heap[s].op = "unwrap_or_else" =>
                    ErrFn(heap[s].f, errs[r.v].cls) = Ret(o.v)
               /\ heap[s].op = "or_else" =>
                    \E c \in MadeBy(s) : ResolvedOut(c) = {o}

\* the handler of a map_ok_or_else stage returned instead of raising, and
\* the stage failed with the receiver's error
C17_Witness ==
    \E s \in StagesOf("map_ok_or_else") : \E r \in RecvSelf(s) :
        /\ r.k = "err"
        /\ CallsOf(s, "e") # {}
        /\ ErrFn(heap[s].e, errs[r.v].cls).k = "val"
        /\ ResolvedOut(s) = {r}
        /\ tasks[1].st = "done"

\* the handler calls of stage s: of f, or of e in map_ok_or_else
HandlerCalls(s) ==
    IF heap[s].op = "map_ok_or_else" THEN CallsOf(s, "e") ELSE CallsOf(s, "f")

\* the chain is built on a coroutine that is cancelled
CancelledRoot == heap # <<>> /\ heap[1].cls = "CancelledError"

\* C18 as stated: when the coroutine at the root is cancelled, no stage of
\* the chain invokes its continuation or handler, and the caller that
\* drives the chain gets the CancelledError.
C18_AsStated ==
    CancelledRoot =>
        /\ \A s \in Stages : CallsOf(s, "f") = {} /\ CallsOf(s, "e") = {}
        /\ (log # <<>> /\ tasks[1].st = "done") =>
              /\ tasks[1].result.k = "err"
              /\ errs[tasks[1].result.v].cls = "CancelledError"

\* C18, amended: a stage that receives a CancelledError from its receiver
\* treats it as any other failure.  If the stage is guarded and its guard
\* accepts the error, its handler is invoked with it, once.  Otherwise the
\* stage invokes neither continuation nor handler, drives nothing and fails
\* with the same error object.  So when the root is cancelled and no guard
\* in the chain the first caller drives accepts CancelledError, no
\* continuation or handler of that chain is invoked and the caller gets
\* the root's CancelledError.
C18_Cancelled ==
    /\ \A s \in Stages : \A r \in RecvSelf(s) :
         (r.k = "err" /\ errs[r.v].cls = "CancelledError") =>
             IF heap[s].op \in GuardedOps
                /\ guard(heap[s].guard, "CancelledError")
             THEN /\ Cardinality(HandlerCalls(s)) = 1
                  /\ \A i \in HandlerCalls(s) : log[i].out = r
             ELSE /\ CallsOf(s, "f") = {}
                  /\ CallsOf(s, "e") = {}
                  /\ MadeBy(s) = {}
                  /\ ResolvedOut(s) = {r}
    /\ (/\ CancelledRoot
        /\ log # <<>>
        /\ \A s \in ChainOf(log[1].co) \cap Stages :
             ~(heap[s].op \in GuardedOps
               /\ guard(heap[s].guard, "CancelledError"))) =>
          /\ \A s \in ChainOf(log[1].co) \cap Stages :
               CallsOf(s, "f") = {} /\ CallsOf(s, "e") = {}
          /\ tasks[1].st = "done" => ResolvedOut(1) = {tasks[1].result}

\* a cancelled root under two stages, one of them guarded, none accepting
\* the cancellation: the caller got the CancelledError
C18_Witness ==
    /\ CancelledRoot
    /\ log # <<>>
    /\ log[1] = Ev("drive", Last, "", None)
    /\ tasks[1].st = "done"
    /\ tasks[1].result.k = "err"
    /\ errs[tasks[1].result.v].cls = "CancelledError"
    /\ ResolvedOut(1) = {tasks[1].result}
    /\ \E s \in Stages : heap[s].op \in GuardedOps /\ CallsOf(s, "guard") # {}

\* C19: a guarded stage evaluates its guard at most once and invokes its
\* handler at most once, and it awaits its receiver once.  When the
\* coroutine an or_else handler returned fails, the stage fails with that
\* very error, and the error is handed neither to the stage's guard nor to
\* its handler, also when the guard would accept it.  When the handler of
\* unwrap_or_else raises, the stage fails and the guard and the handler
\* have still run once only.
C19_NoRetry ==
    \A s \in Stages :
        heap[s].op \in GuardedOps =>
            /\ Cardinality(CallsOf(s, "guard")) <= 1
            /\ Cardinality(HandlerCalls(s)) <= 1
            /\ Cardinality(MadeBy(s)) <= 1
            /\ Cardinality({i \in LogIdx : log[i].ev = "recv" /\ log[i].co = s
                                           /\ log[i].role = "self"}) <= 1
            /\ heap[s].op = "or_else" =>
                 \A c \in MadeBy(s) : \A o \in ResolvedOut(c) :
                     o.k = "err" =>
                         /\ \A o2 \in ResolvedOut(s) : o2 = o
                         /\ \A i \in AllCallsOf(s) : log[i].out # o
            /\ heap[s].op = "unwrap_or_else" =>
                 \A r \in RecvSelf(s) :
                     (/\ r.k = "err"
                      /\ Failed(s, r.v, TRUE)
                      /\ ErrFn(heap[s].f, errs[r.v].cls).k = "raise") =>
                         \A o \in ResolvedOut(s) : o.k = "err"

\* the recovery coroutine of an or_else stage failed with an error that the
\* stage's guard accepts, and the stage has ended with it
C19_Witness ==
    \E s \in StagesOf("or_else") : \E c \in MadeBy(s) :
        \E o \in ResolvedOut(c) :
            /\ o.k = "err"
            /\ guard(heap[s].guard, errs[o.v].cls)
            /\ ResolvedOut(s) = {o}
            /\ Cardinality(CallsOf(s, "guard")) = 1
            /\ tasks[1].st = "done"

\* the combinators that wrap a combinator, and the coroutines a combinator
\* returned by a caller's function wraps
Rewrapped == {c \in Combs : heap[heap[c].aw].kind = "comb"}
MadeInComb ==
    {c \in Coros : \E i \in LogIdx : log[i].ev = "made" /\ log[i].out.v = c
                                      /\ c < Len(heap)
                                      /\ heap[c + 1].kind = "comb"
                                      /\ heap[c + 1].aw = c}

\* C20: of two expressions that differ only in that one wraps a combinator
\* in another AsyncCombinator, or has the function of then or or_else
\* return AsyncCombinator(x) instead of the coroutine x, both driven to
\* their end: the two callers have the same outcome (the same value, or a
\* failure of the same class, cause and context), whatever the order in
\* which the two ran.
C20_CombinatorIsAwaitable ==
    BothDone =>
        \A c, d \in Outermost :
            LET r == tasks[DriverOf(c)].result
                q == tasks[DriverOf(d)].result
            IN /\ r.k = q.k
               /\ r.k = "val" => r.v = q.v
               /\ r.k = "err" =>
                    /\ errs[r.v].cls = errs[q.v].cls
                    /\ ClsOf(errs[r.v].cause) = ClsOf(errs[q.v].cause)
                    /\ ClsOf(errs[r.v].context) = ClsOf(errs[q.v].context)
                    /\ errs[r.v].suppress = errs[q.v].suppress

\* both callers are done: behind a combinator wrapped in a combinator, or
\* behind a combinator that the function of a stage returned, a coroutine
\* ran and its value reached the caller
C20_Witness ==
    /\ heap # <<>>
    /\ BothDone
    /\ \/ \E c \in Rewrapped \cap Outermost :
            /\ tasks[DriverOf(c)].result.k = "val"
            /\ Stages # {}
       \/ \E c \in MadeInComb :
            /\ ResolvedOut(c) # {}
            /\ \E t \in Sides : ResolvedOut(c) = {tasks[t].result}
    /\ \A t \in Sides : tasks[t].result.k = "val" /\ tasks[t].result.v # 0

\* C21: when the function of the success path of a map or map_ok_or_else
\* stage raises, the stage fails with the exception the function raised, a
\* new exception object of the class the function raises, without cause and
\* with its context not suppressed; the stage has evaluated no guard and
\* invoked no err handler, whether or not its guard accepts that exception.
C21_OkRaisesUnhandled ==
    \A s \in StagesOf("map") \cup StagesOf("map_ok_or_else") :
        \A r \in RecvSelf(s) :
            LET x == ValFn(heap[s].f, r.v)
            IN (r.k = "val" /\ x.k = "raise") =>
                /\ CallsOf(s, "guard") = {}
                /\ CallsOf(s, "e") = {}
                /\ Cardinality(CallsOf(s, "f")) = 1
                /\ Cardinality(ResolvedOut(s)) = 1
                /\ \A o \in ResolvedOut(s) :
                     /\ o.k = "err"
                     /\ errs[o.v] = NewErr(x.cls, 0, 0, FALSE)
                     /\ \A i \in AllCallsOf(s) : log[i].out # o

\* the ok function of a map_ok_or_else stage raised an exception that the
\* guard of the stage accepts, and the caller got that exception
C21_Witness ==
    \E s \in StagesOf("map_ok_or_else") : \E r \in RecvSelf(s) :
        /\ r.k = "val"
        /\ ValFn(heap[s].f, r.v).k = "raise"
        /\ guard(heap[s].guard, ValFn(heap[s].f, r.v).cls)
        /\ tasks[1].st = "done"
        /\ tasks[1].result.k = "err"
        /\ ResolvedOut(s) = {tasks[1].result}
        /\ errs[tasks[1].result.v].cls = "RuntimeError"

\* the coroutine that stage s awaits with "await self"
ReceiverOf(s) == __await__(heap, heap[s].self)

\* C22: in a chain, what a stage receives from "await self" is the outcome
\* its receiver ended with, and a guard is evaluated on that outcome.  After
\* a map_err stage whose handler raised a new exception, or an or_else stage
\* whose recovery coroutine failed, the guard of the next stage is evaluated
\* on the new exception and not on the one the earlier stage had received.
\* A guarded stage whose guard does not accept the error ends with the same
\* exception object, which is what the stage after it receives.
C22_StageInputIsPreviousOutcome ==
    \A s \in Stages :
        LET a == ReceiverOf(s)
        IN heap[a].kind \in {"stage", "coro"} =>
            /\ \A r \in RecvSelf(s) : ResolvedOut(a) = {r}
            /\ \A i \in CallsOf(s, "guard") :
                 /\ log[i].out.k = "err"
                 /\ ResolvedOut(a) = {log[i].out}
            /\ \A r \in RecvSelf(s) :
                 (/\ r.k = "err"
                  /\ heap[s].op \in GuardedOps
                  /\ ~guard(heap[s].guard, errs[r.v].cls))
                 => ResolvedOut(s) = {r}
            /\ (heap[a].kind = "stage" /\ heap[a].op = "map_err") =>
                 \A r \in RecvSelf(a) :
                     LET x == ErrFn(heap[a].f, errs[r.v].cls)
                     IN (/\ r.k = "err"
                         /\ Failed(a, r.v, TRUE)
                         /\ x.k = "raise"
                         /\ x.how # "same")
                        => \A i \in CallsOf(s, "guard") :
                               /\ log[i].out.v # r.v
                               /\ errs[log[i].out.v].cls = x.cls
            /\ (heap[a].kind = "stage" /\ heap[a].op = "or_else") =>
                 \A c \in MadeBy(a) : \A o \in ResolvedOut(c) :
                     o.k = "err" =>
                         \A i \in CallsOf(s, "guard") : log[i].out = o

\* a stage replaced the error it received, and the guard of the next stage,
\* which rejects the original error, accepted the new one
C22_Witness ==
    \E s \in Stages :
        LET a == ReceiverOf(s)
        IN /\ heap[a].kind = "stage"
           /\ heap[a].op \in {"map_err", "or_else"}
           /\ \E r \in RecvSelf(a) : \E i \in CallsOf(s, "guard") :
                /\ r.k = "err"
                /\ log[i].out.v # r.v
                /\ ~guard(heap[s].guard, errs[r.v].cls)
                /\ guard(heap[s].guard, errs[log[i].out.v].cls)
           /\ tasks[1].st = "done"

\* the state of combinator c with the objects H: the state of the
\* coroutine its __await__ delegates to, for the object itself holds
\* _awaitable and nothing else
StateOf(H, c) ==
    LET a == __await__(H, c)
    IN CASE H[a].pc = "new" -> "Unconsumed"
         [] H[a].pc = "done" -> "Resolved"
         [] OTHER -> "Driving"

\* the outcomes that the log L records for the coroutine behind c
OutcomeOf(H, L, c) ==
    {L[i].out : i \in {j \in 1..Len(L) : L[j].ev = "resolved"
                                          /\ L[j].co = __await__(H, c)}}

\* C23: in every step, whatever the callers do (operator calls on any
\* combinator, awaits of any combinator, by two callers, also of one that
\* was awaited before), every combinator object stays as it is, and its
\* state moves along Unconsumed -> Driving -> Resolved only: an Unconsumed
\* one stays or becomes Driving, a Driving one stays or becomes Resolved, a
\* Resolved one stays Resolved with the one outcome it has, a value or a
\* failure.
C23_StateMachine ==
    [][\A c \in Combs :
          LET s1 == StateOf(heap, c)
              s2 == StateOf(heap', c)
          IN /\ heap'[c] = heap[c]
             /\ s1 = "Unconsumed" => s2 \in {"Unconsumed", "Driving"}
             /\ s1 = "Driving" => s2 \in {"Driving", "Resolved"}
             /\ s1 = "Resolved" =>
                  /\ s2 = "Resolved"
                  /\ OutcomeOf(heap', log', c) = OutcomeOf(heap, log, c)
             /\ s2 = "Resolved" =>
                  /\ Cardinality(OutcomeOf(heap', log', c)) = 1
                  /\ \A o \in OutcomeOf(heap', log', c) : o.k \in {"val", "err"}]_vars

\* a combinator was awaited again after it had resolved, and both callers
\* are done: it is Resolved, with the outcome it had
C23_Witness ==
    \E c \in Combs :
        /\ StateOf(heap, c) = "Resolved"
        /\ heap[__await__(heap, c)].kind = "stage"
        /\ \E i, j, k \in LogIdx :
             /\ i < j /\ j < k
             /\ log[i] = Ev("drive", c, "", None)
             /\ log[j].ev = "resolved" /\ log[j].co = __await__(heap, c)
             /\ log[k] = Ev("drive", c, "", None)
        /\ \A t \in Sides : tasks[t].st = "done"

\* the coroutine caller t awaits: the one behind the combinator it drove
EntryOf(t) == __await__(heap, log[DriveOf(t)].co)

\* who received the outcome of coroutine co: the stages that await it as
\* their receiver and the callers that await it
Receipts(co) ==
    {<<"stage", s>> : s \in {x \in Stages : /\ ReceiverOf(x) = co
                                             /\ RecvSelf(x) \cap ResolvedOut(co) # {}}}
      \cup {<<"caller", t>> : t \in {u \in DOMAIN tasks :
                                       /\ DriveOf(u) # 0
                                       /\ EntryOf(u) = co
                                       /\ tasks[u].st = "done"
                                       /\ tasks[u].result \in ResolvedOut(co)}}

\* the failure of an await that finds the coroutine finished
Reused(r) == r.k = "err" /\ errs[r.v] = NewErr("RuntimeError", 0, 0, FALSE)

\* C24 as stated: no computation is shared by two chains (no two stage
\* coroutines have the same receiver) and none is driven from a second
\* chain.
C24_AsStated ==
    /\ \A s1, s2 \in Stages : ReceiverOf(s1) = ReceiverOf(s2) => s1 = s2
    /\ \A i \in LogIdx : log[i].ev # "join"

\* C24, amended: operators may be called twice on the same receiver and the
\* two chains then share its computation; the combinator does not prevent
\* it.  A shared coroutine still runs once: every coroutine is started at
\* most once and ends at most once, at most one of the stages and callers
\* that await it receives its outcome, and every other await of it gets a
\* new RuntimeError (a coroutine cannot be awaited again) as the failure of
\* what it awaited.
C24_SharedRunsOnce ==
    /\ \A co \in Stages \cup Coros :
         /\ Cardinality(Begins(co)) <= 1
         /\ Cardinality(Ends(co)) <= 1
         /\ Ends(co) # {} => Cardinality(Receipts(co)) <= 1
    /\ \A s \in Stages : \A r \in RecvSelf(s) :
         r \in ResolvedOut(ReceiverOf(s)) \/ Reused(r)
    /\ \A t \in DOMAIN tasks :
         (DriveOf(t) # 0 /\ tasks[t].st = "done") =>
             tasks[t].result \in ResolvedOut(EntryOf(t))
               \/ Reused(tasks[t].result)

\* two operators were called on the same receiver and both chains were
\* driven to their end while the receiver's coroutine was suspended: one
\* stage received its value and the other one the RuntimeError
C24_Witness ==
    \E s1, s2 \in Stages :
        /\ s1 # s2
        /\ ReceiverOf(s1) = ReceiverOf(s2)
        /\ heap[ReceiverOf(s1)].kind = "coro"
        /\ \E r \in RecvSelf(s1) : r.k = "val"
        /\ \E r \in RecvSelf(s2) : Reused(r)
        /\ \E i \in LogIdx : log[i].ev = "join"
        /\ \A t \in Sides : tasks[t].st = "done"

\* the positions where a caller drove combinator c
DrivesOf(c) == {i \in LogIdx : log[i] = Ev("drive", c, "", None)}

\* C25: a combinator keeps no record of having been driven: the object is
\* AsyncCombinator(_awaitable) and nothing else.  What a second drive of the
\* same instance gives is decided by the coroutine behind it, which is not
\* started again: if it had finished, the caller gets the RuntimeError of a
\* coroutine that cannot be awaited again, at once and without anything
\* having run; if it was suspended, the combinator lets the await through,
\* it goes into the coroutine where it stands, and the caller ends with the
\* coroutine's outcome or with that RuntimeError.
C25_NoConsumedFlag ==
    /\ \A c \in Combs : heap[c] = Combinator(heap[c].aw)
    /\ \A t \in DOMAIN tasks :
         LET i == DriveOf(t)
             c == log[i].co
             a == __await__(heap, c)
             r == tasks[t].result
         IN (i # 0 /\ \E j \in DrivesOf(c) : j < i) =>
             /\ Cardinality(Begins(a)) = 1
             /\ \A k \in Begins(a) : k < i
             /\ IF \E k \in Ends(a) : k < i
                THEN /\ tasks[t].st = "done"
                     /\ Reused(r)
                     /\ i = Len(log) \/ log[i + 1].ev = "drive"
                ELSE /\ i < Len(log)
                     /\ log[i + 1] = Ev("join", a, "", None)
                     /\ tasks[t].st = "done" =>
                          r \in ResolvedOut(a) \/ Reused(r)

\* the combinator at the end of a chain was driven to its end and then
\* driven again: the first caller has the value of the chain and the
\* second one the RuntimeError of the finished coroutine
C25_Witness ==
    \E c \in Combs :
        /\ heap[heap[c].aw].kind = "stage"
        /\ Cardinality(DrivesOf(c)) = 2
        /\ \A t \in Sides : tasks[t].st = "done"
        /\ tasks[1].result.k = "val"
        /\ ResolvedOut(heap[c].aw) = {tasks[1].result}
        /\ Reused(tasks[2].result)
        /\ \A i \in LogIdx : log[i].ev # "join"

\* the same, with the second drive while the chain was suspended: it went
\* into the chain, and the second caller is the one that has its value
C25_WitnessSuspended ==
    \E c \in Combs :
        /\ heap[heap[c].aw].kind = "stage"
        /\ Cardinality(DrivesOf(c)) = 2
        /\ \A t \in Sides : tasks[t].st = "done"
        /\ tasks[2].result.k = "val"
        /\ ResolvedOut(heap[c].aw) = {tasks[2].result}
        /\ Reused(tasks[1].result)

\* C26: once the caller has driven the combinator at the end of a chain,
\* and provided that the event loop resumes it and that every coroutine of
\* the caller (the root, and those the functions of then and or_else
\* return) ends at some time, the caller gets an outcome at some time, a
\* value or a failure, and the coroutine behind the combinator has then
\* finished with that outcome: the chain does not stay in flight forever.
C26_EventuallyResolved ==
    (log # <<>>) ~>
        (/\ heap # <<>>
         /\ tasks[1].st = "done"
         /\ tasks[1].result.k \in {"val", "err"}
         /\ heap[__await__(heap, Last)].pc = "done"
         /\ ResolvedOut(__await__(heap, Last)) = {tasks[1].result})

\* a chain of then and or_else was driven to its end: the coroutine that
\* the function of then returned failed, the one that the function of
\* or_else returned ended with a value, and the caller has that value
C26_Witness ==
    /\ log # <<>>
    /\ tasks[1].st = "done"
    /\ tasks[1].result.k = "val"
    /\ heap[__await__(heap, Last)].pc = "done"
    /\ \E s \in StagesOf("then") : \E c \in MadeBy(s) :
         \E o \in ResolvedOut(c) : o.k = "err"
    /\ \E s \in StagesOf("or_else") : \E c \in MadeBy(s) :
         ResolvedOut(c) = {tasks[1].result}

\* the operators whose continuations are synchronous functions only
SyncOps == {"map", "map_err", "map_ok_or_else", "unwrap_or_else"}

\* the positions where stage s received the outcome of "await self"
RecvAt(s) ==
    {i \in LogIdx : log[i].ev = "recv" /\ log[i].co = s /\ log[i].role = "self"}

\* C27: with two chains under way at the same time, a caller is suspended
\* only inside a coroutine of the caller (the root, or one that the
\* function of then or or_else returned), never at a stage coroutine: a
\* stage that has an outcome to receive is on the CPU.  In the order of
\* events, a stage receives the outcome of its receiver right after the
\* receiver's coroutine ended, and nothing of any other coroutine, of its
\* own chain or of the other one, lies between that and the calls of its
\* guard and of its function, nor, for map, map_err, map_ok_or_else and
\* unwrap_or_else, between that and its end.
C27_NoStageSuspension ==
    /\ \A t \in DOMAIN tasks :
         /\ tasks[t].st = "ready" =>
              /\ heap[OnTop(t)].kind = "coro"
              /\ tasks[t].ret = None
         /\ (tasks[t].stack # <<>> /\ heap[OnTop(t)].kind = "stage") =>
              /\ running = t
              /\ tasks[t].st = "run"
              /\ tasks[t].ret # None
    /\ \A s \in Stages : \A i \in RecvAt(s) :
         /\ log[i - 1].ev = "resolved"
         /\ log[i - 1].co = ReceiverOf(s)
         /\ \A j \in AllCallsOf(s) : \A k \in i..j : log[k].co = s
         /\ heap[s].op \in SyncOps =>
              /\ Ends(s) # {}
              /\ \A j \in Ends(s) : \A k \in i..j : log[k].co = s

\* both chains were under way at the same time: the second caller started
\* while the first one was suspended, the first chain ended while the
\* second one was suspended, and each chain has a stage that received an
\* outcome and called its function
C27_Witness ==
    /\ \A t \in Sides : tasks[t].st = "done"
    /\ \E i, j, k, l \in LogIdx :
         /\ i < j /\ j < k /\ k < l
         /\ log[i].ev = "drive"
         /\ log[j].ev = "drive"
         /\ log[k].ev = "resolved" /\ log[k].co = __await__(heap, log[i].co)
         /\ log[l].ev = "resolved" /\ log[l].co = __await__(heap, log[j].co)
         /\ \E s \in ChainOf(log[i].co) \cap Stages : CallsOf(s, "f") # {}
         /\ \E s \in ChainOf(log[j].co) \cap Stages : CallsOf(s, "f") # {}

\* the operator calls that built the chain under combinator c, innermost
\* first, and the coroutine the chain was built on
RECURSIVE CallsUnder(_, _)
CallsUnder(H, c) ==
    LET a == H[c].aw
    IN IF H[a].kind = "stage"
       THEN Append(CallsUnder(H, H[a].self),
                   Stage(H[a].op, H[a].f, H[a].e, H[a].guard))
       ELSE <<>>

RECURSIVE RootOf(_, _)
RootOf(H, c) ==
    LET a == H[c].aw
    IN IF H[a].kind = "stage" THEN RootOf(H, H[a].self) ELSE a

\* a chain run to its end with nothing else in the event loop: every
\* coroutine on the stack goes on as soon as it can
RECURSIVE RunAlone(_)
RunAlone(m) ==
    IF m.stack = <<>> THEN m
    ELSE IF m.heap[Top(m)].kind = "coro" THEN RunAlone(CoroEnd(m))
    ELSE RunAlone(StageStep(m.heap[Top(m)].op, m))

\* the same expression as the one under combinator c, built on a fresh
\* coroutine and awaited by the only task of an event loop
Alone(c) ==
    LET r == heap[RootOf(heap, c)]
        H == Expr(<<>>, Coro(r.okv, r.cls, r.from), CallsUnder(heap, c))
    IN RunAlone(Await([heap |-> H, errs |-> <<>>, stack |-> <<>>,
                       ret |-> None, log |-> <<>>], Len(H)))

\* Shape, of an outcome of a run with exception objects E
ShapeIn(E, out) ==
    LET cls(e) == IF e = 0 THEN "" ELSE E[e].cls
    IN IF out.k = "err"
       THEN <<"err", E[out.v].cls, cls(E[out.v].cause),
              cls(E[out.v].context), E[out.v].suppress>>
       ELSE <<out.k, out.v>>

\* C28: of two chains built on separate coroutines and awaited by two
\* callers that the event loop runs in any order, each caller gets the
\* outcome its chain has when it is awaited alone (the same value, or an
\* exception of the same class with the same cause, context and
\* suppression), and so does the chain's outermost coroutine.
C28_SameAsAlone ==
    \A t \in DOMAIN tasks :
        (tasks[t].st = "done" /\ DriveOf(t) # 0) =>
            LET c == log[DriveOf(t)].co
                m == Alone(c)
            IN /\ Shape(tasks[t].result) = ShapeIn(m.errs, m.ret)
               /\ ResolvedOut(__await__(heap, c)) = {tasks[t].result}

\* the two chains were under way at the same time, the one that was
\* awaited last ended first, and the two outcomes differ
C28_Witness ==
    /\ \A t \in Sides : tasks[t].st = "done"
    /\ Shape(tasks[1].result) # Shape(tasks[2].result)
    /\ \A t \in Sides : Stages \cap ChainOf(log[DriveOf(t)].co) # {}
    /\ \E i, j, k, l \in LogIdx :
         /\ i < j /\ j < k /\ k < l
         /\ log[i].ev = "drive"
         /\ log[j].ev = "drive"
         /\ log[k].ev = "resolved" /\ log[k].co = __await__(heap, log[j].co)
         /\ log[l].ev = "resolved" /\ log[l].co = __await__(heap, log[i].co)

\* the function a guarded stage calls on an error, and the role it is
\* called in: e for map_ok_or_else, f for the other operators
HandlerOf(s) == IF heap[s].op = "map_ok_or_else" THEN heap[s].e ELSE heap[s].f

HandlerRole(s) == IF heap[s].op = "map_ok_or_else" THEN "e" ELSE "f"

\* C29: when the receiver of a map_err or map_ok_or_else stage fails with
\* e, the guard accepts e and the handler returns a value instead of
\* raising, the handler was called once, with e, and the stage ends with
\* the error object e itself: not with a success, and not with another
\* exception.
C29_ReturningHandler ==
    \A s \in StagesOf("map_err") \cup StagesOf("map_ok_or_else") :
        \A e \in 1..Len(errs) :
            (/\ Failed(s, e, TRUE)
             /\ ErrFn(HandlerOf(s), errs[e].cls).k = "val")
            => /\ Cardinality(CallsOf(s, HandlerRole(s))) = 1
               /\ \A i \in CallsOf(s, HandlerRole(s)) : log[i].out = Err(e)
               /\ ResolvedOut(s) = {Err(e)}
               /\ Cardinality(Ends(s)) = 1

\* a map_err stage and a map_ok_or_else stage whose handler returned
C29_Witness ==
    \E s \in StagesOf("map_err"), u \in StagesOf("map_ok_or_else") :
        \E e, x \in 1..Len(errs) :
            /\ Failed(s, e, TRUE)
            /\ ErrFn(heap[s].f, errs[e].cls).k = "val"
            /\ CallsOf(s, "f") # {}
            /\ ResolvedOut(s) = {Err(e)}
            /\ Failed(u, x, TRUE)
            /\ ErrFn(heap[u].e, errs[x].cls).k = "val"
            /\ CallsOf(u, "e") # {}
            /\ ResolvedOut(u) = {Err(x)}

\* C30: a stage of or_else, map_err, map_ok_or_else or unwrap_or_else
\* evaluates its guard at most once, and only on an error it received from
\* its receiver, the same error object; once it has received an error, it
\* has evaluated the guard exactly once, and once it has received a value,
\* never.  Its handler is called at most once, after the guard, with the
\* error object the guard was evaluated on, and only when the guard
\* accepted it.
C30_GuardOnceOnReceived ==
    \A s \in Stages :
        heap[s].op \in GuardedOps =>
            /\ Cardinality(CallsOf(s, "guard")) <= 1
            /\ \A i \in CallsOf(s, "guard") :
                 /\ log[i].out.k = "err"
                 /\ log[i].out \in RecvSelf(s)
                 /\ i - 1 \in RecvAt(s)
            /\ \A r \in RecvSelf(s) :
                 /\ r.k = "err" =>
                      /\ Cardinality(CallsOf(s, "guard")) = 1
                      /\ \A i \in CallsOf(s, "guard") : log[i].out = r
                 /\ r.k = "val" => CallsOf(s, "guard") = {}
            /\ Cardinality(CallsOf(s, HandlerRole(s))) <= 1
            /\ \A j \in CallsOf(s, HandlerRole(s)) :
                 /\ log[j].out \in RecvSelf(s)
                 /\ j - 1 \in CallsOf(s, "guard")
                 /\ log[j - 1].out = log[j].out
                 /\ Failed(s, log[j].out.v, TRUE)

\* a chain of two guarded stages that both received the same error: the
\* guard of the first one rejected it, the guard of the second one accepted
\* it and the handler was called with it
C30_Witness ==
    \E s, u \in Stages : \E e \in 1..Len(errs) :
        /\ heap[s].op \in GuardedOps
        /\ heap[u].op \in GuardedOps
        /\ ReceiverOf(u) = s
        /\ Failed(s, e, FALSE)
        /\ Cardinality(CallsOf(s, "guard")) = 1
        /\ CallsOf(s, HandlerRole(s)) = {}
        /\ Failed(u, e, TRUE)
        /\ Cardinality(CallsOf(u, "guard")) = 1
        /\ \E j \in CallsOf(u, HandlerRole(u)) : log[j].out = Err(e)

\* C31: when the receiver of an or_else, map_err, map_ok_or_else or
\* unwrap_or_else stage fails with e and the call of the guard on e raises,
\* the stage calls no handler and creates no coroutine, and it ends with
\* the exception the guard raised: a new exception object, not e, of the
\* class the guard raises, with e as its context, without a cause and with
\* its context not suppressed.
C31_GuardRaises ==
    \A s \in Stages : \A e \in 1..Len(errs) :
        (/\ heap[s].op \in GuardedOps
         /\ Err(e) \in RecvSelf(s)
         /\ GuardFn(heap[s].guard, errs[e].cls).k = "raise")
        => /\ Cardinality(CallsOf(s, "guard")) = 1
           /\ CallsOf(s, HandlerRole(s)) = {}
           /\ CallsOf(s, "f") = {}
           /\ MadeBy(s) = {}
           /\ Cardinality(Ends(s)) = 1
           /\ \A r \in ResolvedOut(s) :
                /\ r.k = "err"
                /\ r.v # e
                /\ errs[r.v] = NewErr(GuardFn(heap[s].guard, errs[e].cls).cls,
                                      0, e, FALSE)

\* a stage of each of the four operators whose guard raised on the error
\* of its receiver; the caller got the exception of the last guard
C31_Witness ==
    /\ tasks[1].st = "done"
    /\ tasks[1].result.k = "err"
    /\ errs[tasks[1].result.v].cls = "AttributeError"
    /\ errs[tasks[1].result.v].context # 0
    /\ \E s, u \in Stages : \E e, x \in 1..Len(errs) :
         /\ heap[s].op \in {"or_else", "unwrap_or_else"}
         /\ heap[u].op \in {"map_err", "map_ok_or_else"}
         /\ Err(e) \in RecvSelf(s)
         /\ Err(x) \in RecvSelf(u)
         /\ GuardFn(heap[s].guard, errs[e].cls).k = "raise"
         /\ GuardFn(heap[u].guard, errs[x].cls).k = "raise"
         /\ CallsOf(s, "guard") # {}
         /\ CallsOf(u, "guard") # {}

\* the guard of stage s accepted error e and the handler of s, called
\* with e, raises a new exception "from e"
RaisedFrom(s, e) ==
    /\ Failed(s, e, TRUE)
    /\ GuardFn(heap[s].guard, errs[e].cls).k = "val"
    /\ ErrFn(HandlerOf(s), errs[e].cls) = Raise("KeyError", "from")

\* C32: when the handler of a map_err or map_ok_or_else stage raises an
\* exception "from" the error it was called with, the stage ends with that
\* exception without a cause (and with its context suppressed); when the
\* handler of an unwrap_or_else stage does so, the stage ends with the
\* exception and its cause is the error the handler named; and when the
\* coroutine that the function of an or_else stage returned raises an
\* exception with a cause, the stage ends with that exception object and
\* its cause is the one the coroutine gave it.
C32_CauseClearedOrKept ==
    /\ \A s \in StagesOf("map_err") \cup StagesOf("map_ok_or_else") :
         \A e \in 1..Len(errs) :
            RaisedFrom(s, e) =>
                /\ CallsOf(s, HandlerRole(s)) # {}
                /\ ResolvedOut(s) # {}
                /\ \A o \in ResolvedOut(s) :
                     /\ o.k = "err"
                     /\ o.v # e
                     /\ errs[o.v].cls = "KeyError"
                     /\ errs[o.v].cause = 0
                     /\ errs[o.v].context = e
                     /\ errs[o.v].suppress
    /\ \A s \in StagesOf("unwrap_or_else") : \A e \in 1..Len(errs) :
            RaisedFrom(s, e) =>
                /\ CallsOf(s, "f") # {}
                /\ ResolvedOut(s) # {}
                /\ \A o \in ResolvedOut(s) :
                     /\ o.k = "err"
                     /\ o.v # e
                     /\ errs[o.v].cls = "KeyError"
                     /\ errs[o.v].cause = e
                     /\ errs[o.v].context = e
                     /\ errs[o.v].suppress
    /\ \A s \in StagesOf("or_else") : \A c \in MadeBy(s) :
         \A o \in ResolvedOut(c) :
            (o.k = "err" /\ heap[c].from # "" /\ ResolvedOut(s) # {}) =>
                /\ ResolvedOut(s) = {o}
                /\ errs[o.v].cls = heap[c].cls
                /\ errs[o.v].cause # 0
                /\ errs[errs[o.v].cause].cls = heap[c].from
                /\ errs[o.v].suppress

\* a chain in which the handler of an or_else or unwrap_or_else stage
\* raised an exception with a cause, the stage ended with it, and the
\* handler of the map_err or map_ok_or_else stage that received it raised
\* an exception from it, which reached the caller without a cause
C32_Witness ==
    /\ tasks[1].st = "done"
    /\ tasks[1].result.k = "err"
    /\ errs[tasks[1].result.v].cause = 0
    /\ \E s, u \in Stages : \E e, x \in 1..Len(errs) :
         /\ heap[s].op \in {"or_else", "unwrap_or_else"}
         /\ heap[u].op \in {"map_err", "map_ok_or_else"}
         /\ ReceiverOf(u) = s
         /\ Failed(s, e, TRUE)
         /\ ResolvedOut(s) = {Err(x)}
         /\ errs[x].cause # 0
         /\ RaisedFrom(u, x)
         /\ ResolvedOut(u) = {tasks[1].result}

\* the exception classes of the hierarchy
Classes ==
    {"BaseException", "Exception", "CancelledError", "LookupError",
     "KeyError", "ValueError", "RuntimeError", "TypeError", "AttributeError"}

\* class c is class k or was derived from it, in one step or in several
RECURSIVE issubclass(_, _)
issubclass(c, k) ==
    IF c = k THEN TRUE
    ELSE IF Parent(c) = "" THEN FALSE
    ELSE issubclass(Parent(c), k)

\* the guards that error_guard made
MadeGuards ==
    {"is_value_error", "is_key_error", "is_lookup_error", "is_exception",
     "is_base_exception", "is_value_or_lookup", "is_nothing"}

\* C33: the guard that error_guard(classes...) returns is true of an
\* exception exactly when the class of the exception is one of the classes
\* given or is derived from one of them; error_guard() without classes is
\* false of every exception.  A stage with such a guard that received an
\* error has called its handler (once) exactly when that holds of the
\* error, and a stage whose guard was made from no classes has called no
\* handler and has created no coroutine.
C33_ErrorGuard ==
    /\ \A g \in MadeGuards : \A cls \in Classes :
         guard(g, cls) <=> \E k \in error_guard(g) : issubclass(cls, k)
    /\ \A cls \in Classes : ~guard("is_nothing", cls)
    /\ error_guard("is_nothing") = {}
    /\ \A s \in Stages : \A i \in CallsOf(s, "guard") :
         LET e == log[i].out.v
         IN heap[s].guard \in MadeGuards =>
              /\ Cardinality(CallsOf(s, HandlerRole(s))) <= 1
              /\ CallsOf(s, HandlerRole(s)) # {}
                   <=> \E k \in error_guard(heap[s].guard) :
                          issubclass(errs[e].cls, k)
              /\ heap[s].guard = "is_nothing" =>
                   /\ CallsOf(s, HandlerRole(s)) = {}
                   /\ MadeBy(s) = {}
                   /\ ResolvedOut(s) = {Err(e)}

\* a chain on a coroutine that raised KeyError: the first stage has the
\* guard error_guard() and called no handler, the second one has the guard
\* error_guard(ValueError, LookupError) and called its handler with the
\* error (KeyError is derived from LookupError and is neither of the two)
C33_Witness ==
    \E s, u \in Stages : \E e \in 1..Len(errs) :
        /\ ReceiverOf(u) = s
        /\ heap[s].guard = "is_nothing"
        /\ heap[u].guard = "is_value_or_lookup"
        /\ errs[e].cls = "KeyError"
        /\ Err(e) \in RecvSelf(s)
        /\ CallsOf(s, "guard") # {}
        /\ CallsOf(s, HandlerRole(s)) = {}
        /\ Err(e) \in RecvSelf(u)
        /\ \E j \in CallsOf(u, HandlerRole(u)) : log[j].out = Err(e)
        /\ tasks[1].st = "done"

\* the events of the log that are about object i
EventsOf(i) == {j \in LogIdx : log[j].co = i}

\* the combinator behind what caller t awaited: the combinator itself, or
\* the one whose call returned the coroutine
AwaitedComb(t) ==
    LET x == log[DriveOf(t)].co
    IN IF x \in Calls THEN heap[x].self ELSE x

\* C34: a call c() of a combinator drives nothing: as long as no caller
\* has awaited anything, no coroutine has started and no exception exists,
\* whatever calls were made, and the coroutine a call returned has not
\* started before a caller awaits it.  When one caller awaits the
\* coroutine of c() and nobody else awaits anything, the caller gets the
\* outcome that c has when it is awaited itself (the same value, or an
\* exception of the same class, cause, context and suppression), and it
\* is the very outcome the computation wrapped in c ended with.  A call
\* and the combinator share that computation: each coroutine under c
\* starts at most once and ends at most once, and of two callers that
\* awaited the same c or coroutines of its calls, at most one has its
\* outcome and the other one failed with the RuntimeError of a coroutine
\* awaited again.
C34_CallIsSameDrive ==
    /\ log = <<>> =>
         /\ errs = <<>>
         /\ \A i \in Coros \cup Stages : heap[i].pc = "new"
    /\ \A k \in Calls :
         (\A i \in DrivesAt : log[i].co # k) =>
             /\ heap[k].pc = "new"
             /\ EventsOf(k) = {}
    /\ \A i \in Coros \cup Stages :
         /\ Cardinality(Begins(i)) <= 1
         /\ Cardinality(Ends(i)) <= 1
    /\ (/\ Cardinality(DrivesAt) = 1
        /\ log[1].co \in Calls
        /\ tasks[1].st = "done") =>
           LET k == log[1].co
               c == heap[k].self
               m == Alone(c)
           IN /\ Shape(tasks[1].result) = ShapeIn(m.errs, m.ret)
              /\ ResolvedOut(k) = {tasks[1].result}
              /\ ResolvedOut(__await__(heap, c)) = {tasks[1].result}
    /\ (/\ \A t \in Sides : tasks[t].st = "done"
        /\ AwaitedComb(1) = AwaitedComb(2)) =>
           /\ \E t \in Sides : Reused(tasks[t].result)
           /\ \A t \in Sides :
                ~Reused(tasks[t].result) =>
                    ResolvedOut(__await__(heap, AwaitedComb(t)))
                        = {tasks[t].result}

\* the first caller awaited a coroutine of c() and was suspended in it, the
\* second caller then awaited c or another coroutine of c(); the chain has
\* a stage, one caller got its value and the other one the RuntimeError
C34_Witness ==
    /\ \A t \in Sides : tasks[t].st = "done"
    /\ AwaitedComb(1) = AwaitedComb(2)
    /\ Stages \ Calls # {}
    /\ \E t, u \in Sides :
         /\ tasks[t].result.k = "val"
         /\ tasks[t].result.v # 0
         /\ Reused(tasks[u].result)
    /\ \E i, j \in DrivesAt :
         /\ i < j
         /\ log[i].co \in Calls
         /\ \A e \in Ends(__await__(heap, Last)) : j < e

====
